---- MODULE Spec2Model ----
(***************************************************************************)
(* Browser-side controllers of the diabetes prediction system:             *)
(*   frontend/js/script.js     the prediction form page                    *)
(*   frontend/js/dashboard.js  the analytics dashboard page                *)
(* Each event handler (and each continuation of an async function between  *)
(* two awaits) runs to completion and is one action.                       *)
(***************************************************************************)
EXTENDS Integers, Sequences, FiniteSets, TLC

VARIABLES
    \* ---- validateFormData on its own (script.js:175-224)
    vData,          \* the field -> string mapping handed to validateFormData
    vErrors,        \* the local array `errors` when the function returns
    vResult,        \* the returned object
    vDone           \* whether validateFormData has run on vData

valVars == <<vData, vErrors, vResult, vDone>>

VARIABLES
    \* ---- formatTime on its own (dashboard.js:752-766)
    tTimestamp,     \* the argument `timestamp`
    tNow,           \* the instant `new Date()` gives, in ms
    tResult,        \* the returned string
    tDone           \* whether formatTime has run on tTimestamp

timeVars == <<tTimestamp, tNow, tResult, tDone>>

VARIABLES
    \* ---- the paired sliders and number inputs on their own (script.js:82-127)
    numberValue,    \* control -> value of its input[type=number]: <<>> is ""
    sliderValue,    \* control -> value of its .slider (an input[type=range])
    sliderDisplay,  \* control -> text of its .slider-value
    lastSync        \* the last input event handled

sliderVars == <<numberValue, sliderValue, sliderDisplay, lastSync>>

VARIABLES
    \* ---- the rendering of the feed on its own (dashboard.js:485-529)
    fTimeline,      \* the array `predictions` that is rendered
    fFeed,          \* the items of #predictionFeed
    fDone           \* whether the array has been rendered

feedVars == <<fTimeline, fFeed, fDone>>

VARIABLES
    \* ---- exportData (dashboard.js:563-607)
    downloads,      \* the files whose download exportData has triggered
    nExports,       \* exportData calls made
    exportFormat    \* the argument of the last call: <<>> is null

exportVars == <<downloads, nExports, exportFormat>>

VARIABLES
    \* ---- the share and download controls of the result (script.js:284-357)
    canShare,         \* whether the browser has navigator.share
    nClicks,          \* clicks on the two controls handled
    clickKind,        \* the control of the last click: "share", "download"
    clickOutputs,     \* what the last click produced: reports, shares, copies
    clipboardWrites   \* navigator.clipboard.writeText promises not yet settled

clickVars == <<canShare, nClicks, clickKind, clickOutputs, clipboardWrites>>

\* the state that only the specification of a single part changes
pureVars == <<valVars, timeVars, sliderVars, feedVars, exportVars, clickVars>>

VARIABLES
    \* ---- the prediction form page (script.js)
    formData,       \* the form's named inputs: field -> string
    pc,             \* where the handleFormSubmit call in flight is suspended
    predictBtn,     \* the .btn-predict control: label and disabled
    resultArea,     \* the result placeholder and the result panel
    meterTimers,    \* pending 100 ms timeouts of the confidence meter
    resultActions,  \* results captured by the share/download click listeners
    toastSeq,       \* number of notification elements created so far
    toastDoc,       \* the .notification elements attached to the document
    toastEl,        \* element -> its message, type and visibility
    toastTimers,    \* pending timeouts of showNotification
    nSubmits,       \* submit events handled
    nPassed,        \* submit events whose input satisfied the validation rules
    nPosts,         \* POST requests issued to /api/predict
    nResets,        \* reset clicks handled
    resetInFlight,  \* whether resetForm ran since the last submit event, with a
                    \* submission in flight
    lastEvent       \* the last user or network event handled, and its response

toastVars == <<toastSeq, toastDoc, toastEl, toastTimers>>
countVars == <<nSubmits, nPassed, nPosts, nResets, resetInFlight>>
formVars  == <<formData, pc, predictBtn, resultArea, meterTimers, resultActions,
               toastVars, countVars, lastEvent>>

VARIABLES
    \* ---- the dashboard page (dashboard.js)
    charts,           \* the chart registry: name -> <<instance>> or <<>>
    nConstructed,     \* name -> number of `new Chart` calls made for it
    dashboardData,    \* <<snapshot>>, or <<>> for null
    refreshBtn,       \* the #refreshFeed control: label and disabled
    spinning,         \* whether #refreshFeed carries the class `spinning`
    inflight,         \* the loadDashboardData calls suspended at an await
    nStarted,         \* loadDashboardData calls made
    overlapped,       \* whether a call was made while another was in flight
    nCompleted,       \* loadDashboardData calls that have returned
    stats,            \* the text of the statistics elements
    riskPercent,      \* the text of the three risk share labels
    feed,             \* the items of #predictionFeed
    feedFetches,      \* updatePredictionFeed calls awaiting their own fetch
    counterIntervals, \* the live intervals of animateCounter
    noteCalls,        \* showNotification calls made
    noteElems,        \* .dashboard-notification elements created
    noteDoc,          \* those attached to the document
    noteEl,           \* element -> its message, type and visibility
    noteTimers,       \* pending timeouts of showNotification
    dashEvent         \* the last user, timer or network event handled

dashVars == <<charts, nConstructed, dashboardData, refreshBtn, spinning,
              inflight, nStarted, overlapped, nCompleted, stats, riskPercent, feed,
              feedFetches, counterIntervals, noteCalls, noteElems, noteDoc,
              noteEl, noteTimers, dashEvent>>

vars == <<pureVars, formVars, dashVars>>

-----------------------------------------------------------------------------
(***************************************************************************)
(* Strings are tuples of one-character strings, so that trim() and         *)
(* parseFloat() can be computed character by character.                    *)
(***************************************************************************)

Digits == {"0", "1", "2", "3", "4", "5", "6", "7", "8", "9"}

DigitValue(c) ==
    CASE c = "0" -> 0 [] c = "1" -> 1 [] c = "2" -> 2 [] c = "3" -> 3
      [] c = "4" -> 4 [] c = "5" -> 5 [] c = "6" -> 6 [] c = "7" -> 7
      [] c = "8" -> 8 [] c = "9" -> 9

IsSpace(c) == c = " "

RECURSIVE Pow10(_)
Pow10(n) == IF n = 0 THEN 1 ELSE 10 * Pow10(n - 1)

RECURSIVE SkipSpaces(_)
SkipSpaces(s) ==
    IF s # <<>> /\ IsSpace(Head(s)) THEN SkipSpaces(Tail(s)) ELSE s

RECURSIVE DropTrailingSpaces(_)
DropTrailingSpaces(s) ==
    IF s # <<>> /\ IsSpace(s[Len(s)])
    THEN DropTrailingSpaces(SubSeq(s, 1, Len(s) - 1))
    ELSE s

\* String.prototype.trim
trim(s) == DropTrailingSpaces(SkipSpaces(s))

\* the longest prefix of s made of decimal digits
RECURSIVE DigitRun(_)
DigitRun(s) ==
    IF s # <<>> /\ Head(s) \in Digits
    THEN <<Head(s)>> \o DigitRun(Tail(s))
    ELSE <<>>

RECURSIVE DigitsValue(_)
DigitsValue(ds) ==
    IF ds = <<>> THEN 0
    ELSE 10 * DigitsValue(SubSeq(ds, 1, Len(ds) - 1)) + DigitValue(ds[Len(ds)])

\* A parsed number is (-1)^neg * mant / 10^scale, or NaN.
NaN == [nan |-> TRUE, neg |-> FALSE, mant |-> 0, scale |-> 0]

\* parseFloat: leading white space is skipped, then an optional sign, digits,
\* an optional fraction; whatever follows is ignored; NaN when no digit was
\* read.  (The inputs used here have no exponent and no "Infinity".)
parseFloat(str) ==
    LET s0      == SkipSpaces(str)
        hasSign == s0 # <<>> /\ Head(s0) \in {"-", "+"}
        neg     == hasSign /\ Head(s0) = "-"
        s1      == IF hasSign THEN Tail(s0) ELSE s0
        ip      == DigitRun(s1)
        s2      == SubSeq(s1, Len(ip) + 1, Len(s1))
        hasDot  == s2 # <<>> /\ Head(s2) = "."
        fp      == IF hasDot THEN DigitRun(Tail(s2)) ELSE <<>>
    IN  IF ip = <<>> /\ fp = <<>>
        THEN NaN
        ELSE [nan |-> FALSE, neg |-> neg,
              mant |-> DigitsValue(ip \o fp), scale |-> Len(fp)]

isNaN(v) == v.nan

Signed(v) == IF v.neg THEN 0 - v.mant ELSE v.mant

\* v < n and v > n for a parsed number v and an integer n; both are false
\* for NaN, as in JavaScript.
LessThan(v, n)    == ~v.nan /\ Signed(v) < n * Pow10(v.scale)
GreaterThan(v, n) == ~v.nan /\ Signed(v) > n * Pow10(v.scale)

-----------------------------------------------------------------------------
(***************************************************************************)
(* validateFormData (script.js:175-224)                                    *)
(***************************************************************************)

\* The named inputs of the form, in document order: the three required
\* fields and one of the optional ones.  Object.keys(data) follows it.
FormFields == <<"Glucose", "Insulin", "BMI", "Age">>

requiredFields == <<"Glucose", "BMI", "Age">>

\* Object.keys(data)
Keys(data) == SelectSeq(FormFields, LAMBDA f : f \in DOMAIN data)

\* data[field] is undefined or the empty string
Falsy(data, field) == field \notin DOMAIN data \/ data[field] = <<>>

RequiredReason(field) == field \o " is required"
NumericReason(key)    == key \o " must be a number"
GlucoseRangeReason    == "Glucose must be between 0 and 300 mg/dL"
BMIRangeReason        == "BMI must be between 10 and 70"
AgeRangeReason        == "Age must be between 1 and 120 years"

\* script.js:179-184
RECURSIVE RequiredErrors(_, _)
RequiredErrors(data, fields) ==
    IF fields = <<>> THEN <<>>
    ELSE (IF Falsy(data, Head(fields)) \/ trim(data[Head(fields)]) = <<>>
          THEN <<RequiredReason(Head(fields))>> ELSE <<>>)
         \o RequiredErrors(data, Tail(fields))

\* script.js:187-192
RECURSIVE NumericErrors(_, _)
NumericErrors(data, keys) ==
    IF keys = <<>> THEN <<>>
    ELSE (IF isNaN(parseFloat(data[Head(keys)]))
          THEN <<NumericReason(Head(keys))>> ELSE <<>>)
         \o NumericErrors(data, Tail(keys))

\* RangeError with the upper bound excluded (>= for >)
RangeError_Exclusive(data, field, lo, hi, reason) ==
    IF ~Falsy(data, field)
       /\ (LessThan(parseFloat(data[field]), lo)
           \/ ~LessThan(parseFloat(data[field]), hi))
    THEN <<reason>> ELSE <<>>

\* script.js:195-214, one block per field
RangeError(data, field, lo, hi, reason) ==
    IF ~Falsy(data, field)
       /\ (LessThan(parseFloat(data[field]), lo)
           \/ GreaterThan(parseFloat(data[field]), hi))
    THEN <<reason>> ELSE <<>>

RangeErrors(data) ==
    RangeError(data, "Glucose", 0, 300, GlucoseRangeReason)
    \o RangeError(data, "BMI", 10, 70, BMIRangeReason)
    \o RangeError(data, "Age", 1, 120, AgeRangeReason)

\* errors that stops at the first violated rule
errors_FirstOnly(data) ==
    LET all == RequiredErrors(data, requiredFields)
               \o NumericErrors(data, Keys(data))
               \o RangeErrors(data)
    IN  IF all = <<>> THEN <<>> ELSE <<all[1]>>

\* the array `errors` at script.js:216
errors(data) ==
    RequiredErrors(data, requiredFields)
    \o NumericErrors(data, Keys(data))
    \o RangeErrors(data)

\* Array.prototype.join
RECURSIVE join(_, _)
join(list, sep) ==
    IF list = <<>> THEN ""
    ELSE IF Len(list) = 1 THEN list[1]
    ELSE list[1] \o sep \o join(Tail(list), sep)

validateFormData(data) ==
    IF Len(errors(data)) > 0
    THEN [valid |-> FALSE, message |-> join(errors(data), ", ")]
    ELSE [valid |-> TRUE, message |-> ""]

-----------------------------------------------------------------------------
(***************************************************************************)
(* The inputs validateFormData is run on.                                  *)
(***************************************************************************)

CommonStrings ==
    { <<>>, <<" ">>, <<"a">>, <<"-", "1">>, <<"0">>, <<"1">>,
      <<"2", "5">>, <<"2", "5", "a">>, <<" ", "2", "5", " ">>, <<"9", ".", "9">> }

FieldStrings(f) ==
    CASE f = "Glucose" ->
            CommonStrings \cup { <<"3", "0", "0">>, <<"3", "0", "1">>,
                                 <<"3", "0", "0", ".", "5">> }
      [] f = "BMI" ->
            CommonStrings \cup { <<"9">>, <<"1", "0">>, <<"7", "0">>,
                                 <<"7", "1">>, <<"7", "0", ".", "5">> }
      [] f = "Age" ->
            CommonStrings \cup { <<"1", "2", "0">>, <<"1", "2", "1">>,
                                 <<"0", ".", "5">> }
      [] OTHER -> { <<>>, <<"a">>, <<"8", "0">> }

FieldSet == {FormFields[i] : i \in 1..Len(FormFields)}

\* every mapping of a subset of the fields to one of the field's strings
InputMappings ==
    UNION { { d \in [K -> UNION {FieldStrings(f) : f \in K}] :
                \A f \in K : d[f] \in FieldStrings(f) } : K \in SUBSET FieldSet }

NoResult == [valid |-> FALSE, message |-> "(not run)"]

InitVal ==
    /\ vData = [f \in {} |-> <<>>]
    /\ vErrors = <<>>
    /\ vResult = NoResult
    /\ vDone = FALSE

-----------------------------------------------------------------------------
(***************************************************************************)
(* The validation rules as the specification states them, field by field.  *)
(***************************************************************************)

NonBlank(s) == \E i \in 1..Len(s) : s[i] # " "

ParsesAsNumber(s) == ~parseFloat(s).nan

\* lo <= s <= hi, for a string that parses as a number
Within(s, lo, hi) ==
    LET v == parseFloat(s)
    IN  /\ lo * Pow10(v.scale) <= Signed(v)
        /\ Signed(v) <= hi * Pow10(v.scale)

RangeOf(f) ==
    CASE f = "Glucose" -> <<0, 300>> [] f = "BMI" -> <<10, 70>>
      [] f = "Age" -> <<1, 120>>

RequiredSet == {"Glucose", "BMI", "Age"}

ViolatedRequired(data) ==
    {f \in RequiredSet : f \notin DOMAIN data \/ ~NonBlank(data[f])}

ViolatedNumeric(data) == {k \in DOMAIN data : ~ParsesAsNumber(data[k])}

ViolatedRange(data) ==
    {f \in RequiredSet \cap DOMAIN data :
        ParsesAsNumber(data[f]) /\ ~Within(data[f], RangeOf(f)[1], RangeOf(f)[2])}

RulesHold(data) ==
    /\ \A f \in RequiredSet : f \in DOMAIN data /\ NonBlank(data[f])
    /\ \A k \in DOMAIN data : ParsesAsNumber(data[k])
    /\ \A f \in RequiredSet : Within(data[f], RangeOf(f)[1], RangeOf(f)[2])

-----------------------------------------------------------------------------
(***************************************************************************)
(* Number formatting used when a result is rendered.  A percentage sent by *)
(* the server is held in hundredths (8025 is 80.25).                       *)
(***************************************************************************)

DigitStr(d) ==
    CASE d = 0 -> "0" [] d = 1 -> "1" [] d = 2 -> "2" [] d = 3 -> "3"
      [] d = 4 -> "4" [] d = 5 -> "5" [] d = 6 -> "6" [] d = 7 -> "7"
      [] d = 8 -> "8" [] d = 9 -> "9"

RECURSIVE IntToStr(_)
IntToStr(n) ==
    IF n < 10 THEN DigitStr(n) ELSE IntToStr(n \div 10) \o DigitStr(n % 10)

\* Number.prototype.toFixed(1): one fractional digit, the nearest tenth
toFixed1(h) ==
    LET t == (h + 5) \div 10
    IN  IntToStr(t \div 10) \o "." \o DigitStr(t % 10)

\* Number to string, as in `diabeticPercent + '%'`: no trailing zeros
NumberToString(h) ==
    IF h % 100 = 0 THEN IntToStr(h \div 100)
    ELSE IF h % 10 = 0
         THEN IntToStr(h \div 100) \o "." \o DigitStr((h \div 10) % 10)
         ELSE IntToStr(h \div 100) \o "." \o DigitStr((h \div 10) % 10)
              \o DigitStr(h % 10)

\* risk_level.charAt(0).toUpperCase() + risk_level.slice(1)
Capitalized(level) ==
    CASE level = "low" -> "Low" [] level = "medium" -> "Medium"
      [] level = "high" -> "High" [] OTHER -> level

-----------------------------------------------------------------------------
(***************************************************************************)
(* Bodies the prediction endpoint can answer with, once parsed.  A         *)
(* property is <<v>> when the body carries it and <<>> when it does not.   *)
(***************************************************************************)

Body(status, error, label, risk, conf, diab, nondiab, advice) ==
    [isNull |-> FALSE, status |-> status, error |-> error,
     prediction_label |-> label, risk_level |-> risk, hasConfidence |-> conf,
     diabetic |-> diab, non_diabetic |-> nondiab, health_advice |-> advice]

NullBody ==
    [Body(<<>>, <<>>, <<>>, <<>>, FALSE, <<>>, <<>>, <<>>) EXCEPT !.isNull = TRUE]

SuccessHigh ==
    Body(<<"success">>, <<>>, <<"Diabetic">>, <<"high">>, TRUE, <<8025>>,
         <<1975>>, <<<<"See a doctor", "Exercise">>>>)
SuccessLow ==
    Body(<<"success">>, <<>>, <<"Non-Diabetic">>, <<"low">>, TRUE, <<1000>>,
         <<9000>>, <<<<"Keep it up">>>>)
\* status "success" with the rest of the result missing
SuccessNoRisk ==
    Body(<<"success">>, <<>>, <<"Diabetic">>, <<>>, FALSE, <<>>, <<>>, <<>>)
\* status "success" with confidence.non_diabetic missing
SuccessNoNonDiabetic ==
    Body(<<"success">>, <<>>, <<"Diabetic">>, <<"medium">>, TRUE, <<5550>>,
         <<>>, <<<<"Exercise">>>>)
ErrorWithMessage ==
    Body(<<"error">>, <<"Model not loaded">>, <<>>, <<>>, FALSE, <<>>, <<>>, <<>>)
ErrorNoMessage ==
    Body(<<"error">>, <<>>, <<>>, <<>>, FALSE, <<>>, <<>>, <<>>)

Bodies ==
    { SuccessHigh, SuccessLow, SuccessNoRisk, SuccessNoNonDiabetic,
      ErrorWithMessage, ErrorNoMessage, NullBody }

NoBody == Body(<<>>, <<>>, <<>>, <<>>, FALSE, <<>>, <<>>, <<>>)

\* textContent = v: an undefined value gives the empty string
Text(v) == IF v = <<>> THEN "" ELSE v[1]

-----------------------------------------------------------------------------
(***************************************************************************)
(* showNotification of the form page (script.js:556-610)                   *)
(***************************************************************************)

Min(S) == CHOOSE x \in S : \A y \in S : x <= y
Max(S) == CHOOSE x \in S : \A y \in S : x >= y

\* document.querySelector('.notification'): the first one in document order
QueryNotification == IF toastDoc = {} THEN {} ELSE {Min(toastDoc)}

\* line 559 left out: the existing notification stays
DocKeepExisting == toastDoc

\* the document after line 559
DocAfterRemoveExisting == toastDoc \ QueryNotification

showNotification(message, type) ==
    LET notification == toastSeq + 1
    IN  /\ toastSeq' = notification
        /\ toastDoc' = DocAfterRemoveExisting \cup {notification}
        /\ toastEl' = [e \in DOMAIN toastEl \cup {notification} |->
                         IF e = notification
                         THEN [message |-> message, type |-> type, shown |-> FALSE]
                         ELSE toastEl[e]]
        /\ toastTimers' = toastTimers \cup
                            { [el |-> notification, kind |-> "in"],
                              [el |-> notification, kind |-> "out"] }

\* Timeouts fire in the order of their due times: of two timeouts of the same
\* delay the one set first, and the 10 ms one before the 3000 ms one of the
\* same call.
TimerDue(t) ==
    /\ t \in toastTimers
    /\ \A u \in toastTimers : u.kind = t.kind => u.el >= t.el
    /\ t.kind = "out" => [el |-> t.el, kind |-> "in"] \notin toastTimers

\* script.js:599-602
ToastAnimateIn(e) ==
    /\ TimerDue([el |-> e, kind |-> "in"])
    /\ toastEl' = [toastEl EXCEPT ![e].shown = TRUE]
    /\ toastTimers' = toastTimers \ {[el |-> e, kind |-> "in"]}
    /\ UNCHANGED <<toastSeq, toastDoc>>

\* script.js:605-609, the outer callback
ToastAnimateOut(e) ==
    /\ TimerDue([el |-> e, kind |-> "out"])
    /\ toastEl' = [toastEl EXCEPT ![e].shown = FALSE]
    /\ toastTimers' = (toastTimers \ {[el |-> e, kind |-> "out"]})
                        \cup {[el |-> e, kind |-> "remove"]}
    /\ UNCHANGED <<toastSeq, toastDoc>>

\* script.js:608, notification.remove(); the element is unreachable afterwards
ToastRemove(e) ==
    /\ TimerDue([el |-> e, kind |-> "remove"])
    /\ toastDoc' = toastDoc \ {e}
    /\ toastEl' = [x \in DOMAIN toastEl \ {e} |-> toastEl[x]]
    /\ toastTimers' = toastTimers \ {[el |-> e, kind |-> "remove"]}
    /\ UNCHANGED toastSeq

ToastTimer ==
    /\ \E e \in DOMAIN toastEl :
          ToastAnimateIn(e) \/ ToastAnimateOut(e) \/ ToastRemove(e)
    /\ UNCHANGED <<formData, pc, predictBtn, resultArea, meterTimers,
                   resultActions, countVars, lastEvent>>
    /\ UNCHANGED <<pureVars, dashVars>>

-----------------------------------------------------------------------------
(***************************************************************************)
(* Rendering a result (script.js:227-282)                                  *)
(***************************************************************************)

\* showLoading (script.js:543-554)
showLoading(show) ==
    IF show
    THEN [label |-> "Processing...", disabled |-> TRUE]
    ELSE [label |-> "Predict Diabetes Risk", disabled |-> FALSE]

\* The statements of displayPredictionResult run in order until one throws
\* a TypeError on a missing property; what ran before stays done.
\*   line 244 reads result.risk_level.charAt
\*   line 254 reads result.confidence.diabetic, line 256 calls its toFixed
\*   line 263 calls result.confidence.non_diabetic.toFixed
displayPredictionResult(area, result) ==
    LET a1 == [area EXCEPT !.placeholder = "none", !.content = "block"]
        a2 == [a1 EXCEPT !.predictionLabel = Text(result.prediction_label)]
        a3 == [a2 EXCEPT
                 !.riskBadge = Capitalized(result.risk_level[1]) \o " Risk",
                 !.riskClass = "risk-badge " \o result.risk_level[1]]
        a4 == [a3 EXCEPT
                 !.confidenceValue = toFixed1(result.diabetic[1]) \o "%",
                 !.meterWidth = "0%"]
        a5 == [a4 EXCEPT
                 !.nonDiabeticProb = toFixed1(result.non_diabetic[1]) \o "%",
                 !.diabeticProb = toFixed1(result.diabetic[1]) \o "%"]
        a6 == IF result.health_advice # <<>>
              THEN [a5 EXCEPT !.adviceList = result.health_advice[1]]
              ELSE a5
    IN  IF result.risk_level = <<>>
        THEN [area |-> a2, meter |-> <<>>, actions |-> <<>>, threw |-> TRUE]
        ELSE IF ~result.hasConfidence \/ result.diabetic = <<>>
        THEN [area |-> a3, meter |-> <<>>, actions |-> <<>>, threw |-> TRUE]
        ELSE IF result.non_diabetic = <<>>
        THEN [area |-> a4, meter |-> <<result.diabetic[1]>>,
              actions |-> <<>>, threw |-> TRUE]
        ELSE [area |-> a6, meter |-> <<result.diabetic[1]>>,
              actions |-> <<result>>, threw |-> FALSE]

\* script.js:259-261, the callback of the 100 ms timeout
MeterTimer ==
    /\ meterTimers # <<>>
    /\ resultArea' =
         [resultArea EXCEPT !.meterWidth = NumberToString(Head(meterTimers)) \o "%"]
    /\ meterTimers' = Tail(meterTimers)
    /\ UNCHANGED <<formData, pc, predictBtn, resultActions, toastVars,
                   countVars, lastEvent>>
    /\ UNCHANGED <<pureVars, dashVars>>

-----------------------------------------------------------------------------
(***************************************************************************)
(* handleFormSubmit (script.js:130-173)                                    *)
(***************************************************************************)

Event(kind, body) == [kind |-> kind, body |-> body]

\* HandleFormSubmit without the `return` of line 141
HandleFormSubmit_NoReturn ==
    LET validation == validateFormData(formData)
    IN  /\ IF ~validation.valid
           THEN showNotification(validation.message, "error")
           ELSE UNCHANGED toastVars
        /\ predictBtn' = showLoading(TRUE)
        /\ nPosts' = nPosts + 1
        /\ pc' = "fetching"
        /\ lastEvent' = Event("sent", NoBody)

\* lines 131-145 and the call of fetch: up to the first await
HandleFormSubmit ==
    LET validation == validateFormData(formData)
    IN  IF ~validation.valid
        THEN /\ showNotification(validation.message, "error")
             /\ lastEvent' = Event("invalid", NoBody)
             /\ UNCHANGED <<pc, predictBtn, nPosts>>
        ELSE /\ predictBtn' = showLoading(TRUE)
             /\ nPosts' = nPosts + 1
             /\ pc' = "fetching"
             /\ lastEvent' = Event("sent", NoBody)
             /\ UNCHANGED toastVars

\* the catch block with no finally block after it
CatchWithoutFinally ==
    /\ showNotification("Unable to connect to prediction service", "error")
    /\ predictBtn' = predictBtn
    /\ pc' = "idle"

\* the catch block and the finally block (lines 167-172)
CatchAndFinally ==
    /\ showNotification("Unable to connect to prediction service", "error")
    /\ predictBtn' = showLoading(FALSE)
    /\ pc' = "idle"

\* lines 159-165 once response.json() has resolved with `result`, then finally
HandleResult(result) ==
    IF result.isNull
    THEN \* result.status throws
         /\ CatchAndFinally
         /\ UNCHANGED <<resultArea, meterTimers, resultActions>>
    ELSE IF result.status = <<"success">>
    THEN LET shown == displayPredictionResult(resultArea, result)
         IN  /\ resultArea' = shown.area
             /\ meterTimers' = meterTimers \o shown.meter
             /\ resultActions' = resultActions \o shown.actions
             /\ IF shown.threw
                THEN CatchAndFinally
                ELSE /\ showNotification("Prediction completed successfully!",
                                         "success")
                     /\ predictBtn' = showLoading(FALSE)
                     /\ pc' = "idle"
    ELSE /\ showNotification(IF result.error # <<>> /\ result.error[1] # ""
                             THEN result.error[1] ELSE "Prediction failed",
                             "error")
         /\ predictBtn' = showLoading(FALSE)
         /\ pc' = "idle"
         /\ UNCHANGED <<resultArea, meterTimers, resultActions>>

-----------------------------------------------------------------------------
(***************************************************************************)
(* The form page: events                                                   *)
(***************************************************************************)

MaxSubmits == 2
MaxResets == 1

Str3(a, b, c) == <<a, b, c>>

\* the values the form's inputs are declared with, and two edits of them
DefaultForm ==
    [f \in FieldSet |->
        CASE f = "Glucose" -> Str3("1", "2", "0") [] f = "Insulin" -> <<"8", "0">>
          [] f = "BMI" -> <<"2", "5">> [] f = "Age" -> <<"3", "0">>]
GlucoseTooHigh == [DefaultForm EXCEPT !["Glucose"] = Str3("3", "0", "1")]
BlankAndText   == [DefaultForm EXCEPT !["Age"] = <<" ">>, !["BMI"] = <<"a">>]

FormInputs == {DefaultForm, GlucoseTooHigh, BlankAndText}

InitialResultArea ==
    [placeholder |-> "block", content |-> "none", predictionLabel |-> "",
     riskBadge |-> "", riskClass |-> "risk-badge", confidenceValue |-> "",
     meterWidth |-> "0%", nonDiabeticProb |-> "", diabeticProb |-> "",
     adviceList |-> <<>>]

InitForm ==
    /\ formData = DefaultForm
    /\ pc = "idle"
    /\ predictBtn = showLoading(FALSE)
    /\ resultArea = InitialResultArea
    /\ meterTimers = <<>>
    /\ resultActions = <<>>
    /\ toastSeq = 0
    /\ toastDoc = {}
    /\ toastEl = [e \in {} |-> 0]
    /\ toastTimers = {}
    /\ nSubmits = 0
    /\ nPassed = 0
    /\ nPosts = 0
    /\ nResets = 0
    /\ resetInFlight = FALSE
    /\ lastEvent = Event("none", NoBody)

\* the user changes the inputs
EditForm ==
    /\ \E d \in FormInputs \ {formData} : formData' = d
    /\ UNCHANGED <<pc, predictBtn, resultArea, meterTimers, resultActions,
                   toastVars, countVars, lastEvent>>
    /\ UNCHANGED <<pureVars, dashVars>>

\* A submit event: the submit control is clicked, or Enter or Ctrl+Enter is
\* pressed (script.js:630-638).  A disabled submit control submits nothing.
SubmitForm ==
    /\ ~predictBtn.disabled
    /\ nSubmits < MaxSubmits
    /\ nSubmits' = nSubmits + 1
    /\ nPassed' = nPassed + (IF RulesHold(formData) THEN 1 ELSE 0)
    /\ HandleFormSubmit
    /\ resetInFlight' = FALSE
    /\ UNCHANGED <<formData, resultArea, meterTimers, resultActions, nResets>>
    /\ UNCHANGED <<pureVars, dashVars>>

\* fetch resolves: the handler goes on to await response.json()
FetchResolved ==
    /\ pc = "fetching"
    /\ pc' = "parsing"
    /\ UNCHANGED <<formData, predictBtn, resultArea, meterTimers, resultActions,
                   toastVars, countVars, lastEvent>>
    /\ UNCHANGED <<pureVars, dashVars>>

\* fetch rejects: the server is unreachable
FetchRejected ==
    /\ pc = "fetching"
    /\ CatchAndFinally
    /\ lastEvent' = Event("unreachable", NoBody)
    /\ UNCHANGED <<formData, resultArea, meterTimers, resultActions, countVars>>
    /\ UNCHANGED <<pureVars, dashVars>>

\* response.json() rejects: the body is not JSON
JsonRejected ==
    /\ pc = "parsing"
    /\ CatchAndFinally
    /\ lastEvent' = Event("notJson", NoBody)
    /\ UNCHANGED <<formData, resultArea, meterTimers, resultActions, countVars>>
    /\ UNCHANGED <<pureVars, dashVars>>

\* response.json() resolves with a body
JsonResolved ==
    /\ pc = "parsing"
    /\ \E result \in Bodies :
          /\ HandleResult(result)
          /\ lastEvent' = Event("response", result)
    /\ UNCHANGED <<formData, countVars>>
    /\ UNCHANGED <<pureVars, dashVars>>

\* resetForm (script.js:395-418): the reset control, or Escape
ResetForm ==
    /\ nResets < MaxResets
    /\ nResets' = nResets + 1
    /\ resetInFlight' = (pc # "idle")
    /\ formData' = DefaultForm
    /\ resultArea' = [resultArea EXCEPT !.placeholder = "block", !.content = "none"]
    /\ showNotification("Form reset successfully", "info")
    /\ lastEvent' = Event("reset", NoBody)
    /\ UNCHANGED <<pc, predictBtn, meterTimers, resultActions, nSubmits,
                   nPassed, nPosts>>
    /\ UNCHANGED <<pureVars, dashVars>>

-----------------------------------------------------------------------------
(***************************************************************************)
(* The dashboard page (dashboard.js): payloads of /api/analytics/dashboard *)
(* A property is <<v>> when the body carries it and <<>> when it does not. *)
(* Numbers with decimals are held in hundredths.                           *)
(***************************************************************************)

MaxCount == 2

ChartNames ==
    {"riskDistribution", "featureImportance", "hourlyTrend", "performance",
     "ageDistribution"}

Overview(total, accuracy, avgTime) ==
    [total_predictions |-> total, model_accuracy |-> accuracy,
     avg_response_time |-> avgTime]

Risk(low, medium, high) == [low |-> low, medium |-> medium, high |-> high]

Snapshot(error, overview, risk, trend, metrics, features, timeline) ==
    [isNull |-> FALSE, error |-> error, overview |-> overview,
     risk_distribution |-> risk, hourly_trend |-> trend,
     performance_metrics |-> metrics, feature_distribution |-> features,
     predictions_timeline |-> timeline]

ServerOverview == Overview(<<12>>, <<9120>>, <<25>>)
ServerTrend    == [labels |-> <<"0:00", "1:00">>, data |-> <<3, 9>>]
ServerMetrics  == [precision |-> 9100, recall |-> 8800, f1_score |-> 8900,
                   auc_score |-> 9300]
ServerFeatures == [age_groups |-> <<10, 60, 30>>]
ServerTimeline == <<[timestamp |-> 7], [timestamp |-> 4]>>

\* a count the server sends, or none
Counts == {<<>>} \cup {<<n>> : n \in 0..MaxCount}

\* complete snapshots that differ in their risk distribution: any low count,
\* a medium count of 0 or 1, the largest high count or none
ServerSnapshots ==
    { Snapshot(<<>>, <<ServerOverview>>, <<Risk(l, m, h)>>, <<ServerTrend>>,
               <<ServerMetrics>>, <<ServerFeatures>>, <<ServerTimeline>>) :
        l \in Counts, m \in {<<0>>, <<1>>}, h \in {<<>>, <<MaxCount>>} }

CompleteSnapshot ==
    Snapshot(<<>>, <<ServerOverview>>, <<Risk(<<1>>, <<0>>, <<2>>)>>,
             <<ServerTrend>>, <<ServerMetrics>>, <<ServerFeatures>>,
             <<ServerTimeline>>)

\* bodies that are JSON but not a complete snapshot
NoTimeline    == [CompleteSnapshot EXCEPT !.predictions_timeline = <<>>]
NoOverview    == [CompleteSnapshot EXCEPT !.overview = <<>>]
NoAccuracy    == [CompleteSnapshot EXCEPT
                    !.overview = <<Overview(<<12>>, <<>>, <<25>>)>>]
NoRisk        == [CompleteSnapshot EXCEPT !.risk_distribution = <<>>]
NoTrend       == [CompleteSnapshot EXCEPT !.hourly_trend = <<>>]
NoMetrics     == [CompleteSnapshot EXCEPT !.performance_metrics = <<>>]
NoFeatures    == [CompleteSnapshot EXCEPT !.feature_distribution = <<>>]
ErrorSnapshot == Snapshot(<<"no data">>, <<>>, <<>>, <<>>, <<>>, <<>>, <<>>)
NullSnapshot  == [ErrorSnapshot EXCEPT !.isNull = TRUE, !.error = <<>>]

Payloads ==
    ServerSnapshots \cup
    { NoTimeline, NoOverview, NoAccuracy, NoRisk, NoTrend, NoMetrics,
      NoFeatures, ErrorSnapshot, NullSnapshot }

\* the object loadSampleData builds (dashboard.js:633-674); the five events
\* of its timeline are 0 to 4 hours old
sampleData ==
    Snapshot(<<>>, <<Overview(<<1247>>, <<9420>>, <<30>>)>>,
             <<Risk(<<560>>, <<437>>, <<250>>)>>,
             <<[labels |-> <<"00:00", "01:00">>, data |-> <<2, 1>>]>>,
             <<[precision |-> 9200, recall |-> 8900, f1_score |-> 9000,
                auc_score |-> 9400]>>,
             <<[age_groups |-> <<25, 45, 30>>]>>,
             <<<<[timestamp |-> 0], [timestamp |-> -1], [timestamp |-> -2],
                 [timestamp |-> -3], [timestamp |-> -4]>>>>)

-----------------------------------------------------------------------------
(***************************************************************************)
(* Text of numbers on the dashboard                                        *)
(***************************************************************************)

CharOf(d) == DigitStr(d)

RECURSIVE IntToChars(_)
IntToChars(n) ==
    IF n < 10 THEN <<CharOf(n)>> ELSE IntToChars(n \div 10) \o <<CharOf(n % 10)>>

\* Number.prototype.toLocaleString of a whole number: groups of three digits
RECURSIVE toLocaleString(_)
toLocaleString(n) ==
    IF n < 1000 THEN IntToChars(n)
    ELSE toLocaleString(n \div 1000) \o <<",">>
         \o <<CharOf((n % 1000) \div 100), CharOf((n % 100) \div 10), CharOf(n % 10)>>

\* parseInt(text.replace(/,/g, '')) || 0
ParseCounterText(text) ==
    LET plain == SelectSeq(text, LAMBDA c : c # ",")
    IN  IF DigitRun(plain) = <<>> THEN 0 ELSE DigitsValue(DigitRun(plain))

\* Math.ceil(a / b) for b > 0
CeilDiv(a, b) == IF a >= 0 THEN (a + b - 1) \div b ELSE 0 - ((0 - a) \div b)

\* riskData.low || 0
OrZero(count) == IF count = <<>> THEN 0 ELSE count[1]

\* RiskPercentText with Math.floor for Math.round
RiskPercentText_Floor(count, total) ==
    IF total > 0
    THEN IntToStr((100 * count) \div total) \o "%"
    ELSE "0%"

\* Math.round((count / total) * 100) + '%', or '0%' (dashboard.js:140-142)
RiskPercentText(count, total) ==
    IF total > 0
    THEN IntToStr((200 * count + total) \div (2 * total)) \o "%"
    ELSE "0%"

-----------------------------------------------------------------------------
(***************************************************************************)
(* updateDashboard (dashboard.js:74-83) and what it calls.  `dom` is the   *)
(* document and the chart registry; each step gives the state after it.    *)
(***************************************************************************)

\* animateCounter (dashboard.js:775-788): the interval it starts
animateCounter(text, target) ==
    LET current == ParseCounterText(text)
    IN  [current |-> current, increment |-> CeilDiv(target - current, 20),
         target |-> target]

\* UpdateChart without the test of the registry: a new Chart every time
UpdateChart_AlwaysNew(dom, name, data, total) ==
    [dom EXCEPT
       !.charts[name] = <<[data |-> data, total |-> total]>>,
       !.nConstructed[name] = @ + 1]

\* `if (charts.x) { ...data = d; update() } else { charts.x = new Chart(..) }`
\* `total` is the constant of the creating call that the tooltip callback of
\* the doughnut closes over.
UpdateChart(dom, name, data, total) ==
    IF dom.charts[name] # <<>>
    THEN [dom EXCEPT !.charts[name] = <<[@[1] EXCEPT !.data = data]>>]
    ELSE [dom EXCEPT
            !.charts[name] = <<[data |-> data, total |-> total]>>,
            !.nConstructed[name] = @ + 1]

\* updateStats (dashboard.js:86-109), lines 92-95
StatsTotal(dom, overview) ==
    [dom EXCEPT
       !.stats.totalPredictions = toLocaleString(overview.total_predictions[1]),
       !.counterIntervals =
           Append(@, animateCounter(toLocaleString(overview.total_predictions[1]),
                                    overview.total_predictions[1]))]

\* lines 97-103
StatsRates(dom, overview) ==
    [dom EXCEPT
       !.stats.accuracyRate = toFixed1(overview.model_accuracy[1]) \o "%",
       !.stats.avgResponse =
           NumberToString(overview.avg_response_time[1]) \o "s"]

\* lines 105-108; `held` is the global dashboardData
StatsHighRisk(dom, held) ==
    [dom EXCEPT
       !.stats.highRiskCount = toLocaleString(OrZero(held.risk_distribution[1].high))]

\* updateRiskDistributionChart (dashboard.js:130-197)
updateRiskDistributionChart(dom, riskData) ==
    LET low    == OrZero(riskData.low)
        medium == OrZero(riskData.medium)
        high   == OrZero(riskData.high)
        total  == low + medium + high
        d1     == [dom EXCEPT
                     !.riskPercent = [low    |-> RiskPercentText(low, total),
                                      medium |-> RiskPercentText(medium, total),
                                      high   |-> RiskPercentText(high, total)]]
    IN  UpdateChart(d1, "riskDistribution", <<low, medium, high>>, total)

\* updateFeatureImportanceChart (dashboard.js:200-262)
importance == <<95, 87, 78, 65, 58, 45, 32, 25>>

updateFeatureImportanceChart(dom) ==
    UpdateChart(dom, "featureImportance", importance, 0)

\* updateHourlyTrendChart (dashboard.js:265-325)
updateHourlyTrendChart(dom, trendData) ==
    UpdateChart(dom, "hourlyTrend", trendData, 0)

\* updatePerformanceChart (dashboard.js:328-390)
updatePerformanceChart(dom, metrics) ==
    UpdateChart([dom EXCEPT
                   !.stats.precisionValue = toFixed1(metrics.precision) \o "%",
                   !.stats.recallValue = toFixed1(metrics.recall) \o "%",
                   !.stats.f1Value = toFixed1(metrics.f1_score) \o "%"],
                "performance",
                <<metrics.precision, metrics.recall, metrics.f1_score,
                  metrics.auc_score>>, 0)

\* updateAgeDistributionChart (dashboard.js:393-465)
updateAgeDistributionChart(dom, distribution) ==
    UpdateChart(dom, "ageDistribution", distribution.age_groups, 0)

\* the items updatePredictionFeed appends (dashboard.js:498-529):
\* item i of n is labelled "Prediction #(n - i)", i counted from 0
FeedItems(predictions) ==
    [i \in 1..Len(predictions) |->
        [number |-> Len(predictions) - (i - 1),
         timestamp |-> predictions[i].timestamp]]

\* updatePredictionFeed (dashboard.js:468-530) up to its first await:
\* without a timeline it starts a fetch of its own and leaves the feed as is
updatePredictionFeed(dom, timeline) ==
    IF timeline = <<>>
    THEN [dom EXCEPT !.feedFetches = @ + 1]
    ELSE [dom EXCEPT !.feed = FeedItems(timeline[1])]

Outcome(dom, threw) == [dom |-> dom, threw |-> threw]

\* updateDashboard: the statements run in order until one throws a TypeError
\* on a missing property; what ran before stays done.
updateDashboard(dom, data, held) ==
    IF data.overview = <<>> \/ data.overview[1].total_predictions = <<>>
    THEN Outcome(dom, TRUE)                                     \* line 93
    ELSE LET d1 == StatsTotal(dom, data.overview[1]) IN
    IF data.overview[1].model_accuracy = <<>>
    THEN Outcome(d1, TRUE)                                      \* line 98
    ELSE LET d2 == StatsRates(d1, data.overview[1]) IN
    IF held.risk_distribution = <<>>
    THEN Outcome(d2, TRUE)                                      \* line 106
    ELSE LET d3 == StatsHighRisk(d2, held) IN
    IF data.risk_distribution = <<>>
    THEN Outcome(d3, TRUE)                                      \* line 134
    ELSE LET d4 == updateFeatureImportanceChart(
                     updateRiskDistributionChart(d3, data.risk_distribution[1])) IN
    IF data.hourly_trend = <<>>
    THEN Outcome(d4, TRUE)                                      \* line 269
    ELSE LET d5 == updateHourlyTrendChart(d4, data.hourly_trend[1]) IN
    IF data.performance_metrics = <<>>
    THEN Outcome(d5, TRUE)                                      \* line 333
    ELSE LET d6 == updatePerformanceChart(d5, data.performance_metrics[1]) IN
    IF data.feature_distribution = <<>>
    THEN Outcome(d6, TRUE)                                      \* line 397
    ELSE Outcome(updatePredictionFeed(
                    updateAgeDistributionChart(d6, data.feature_distribution[1]),
                    data.predictions_timeline), FALSE)

-----------------------------------------------------------------------------
(***************************************************************************)
(* showNotification of the dashboard page (dashboard.js:695-750)           *)
(***************************************************************************)

\* document.querySelector('.dashboard-notification')
QueryDashNotification == IF noteDoc = {} THEN {} ELSE {Min(noteDoc)}

\* The element in the document is reused; a new one is created, hidden, and
\* appended when there is none.  The two timeouts belong to this call.
dashShowNotification(message, type) ==
    LET found        == QueryDashNotification
        notification == IF found = {} THEN noteElems + 1 ELSE Min(found)
        call         == noteCalls + 1
    IN  /\ noteCalls' = call
        /\ noteElems' = IF found = {} THEN notification ELSE noteElems
        /\ noteDoc' = noteDoc \cup {notification}
        /\ noteEl' = [e \in DOMAIN noteEl \cup {notification} |->
                        IF e = notification
                        THEN [message |-> message, type |-> type,
                              shown |-> IF found = {} THEN FALSE
                                        ELSE noteEl[e].shown]
                        ELSE noteEl[e]]
        /\ noteTimers' = noteTimers \cup
                           { [call |-> call, el |-> notification, kind |-> "in"],
                             [call |-> call, el |-> notification, kind |-> "out"] }

\* Timeouts fire in the order of their due times, as on the form page.
NoteTimerDue(t) ==
    /\ t \in noteTimers
    /\ \A u \in noteTimers : u.kind = t.kind => u.call >= t.call
    /\ t.kind = "out" => [t EXCEPT !.kind = "in"] \notin noteTimers

\* elements still in the document or still held by a pending timeout
NoteReachable(doc, timers) == doc \cup {t.el : t \in timers}

\* dashboard.js:735-738
NoteAnimateIn(t) ==
    /\ t.kind = "in"
    /\ noteEl' = [noteEl EXCEPT ![t.el].shown = TRUE]
    /\ noteTimers' = noteTimers \ {t}
    /\ UNCHANGED <<noteCalls, noteElems, noteDoc>>

\* dashboard.js:741-749, the outer callback
NoteAnimateOut(t) ==
    /\ t.kind = "out"
    /\ noteEl' = [noteEl EXCEPT ![t.el].shown = FALSE]
    /\ noteTimers' = (noteTimers \ {t}) \cup {[t EXCEPT !.kind = "remove"]}
    /\ UNCHANGED <<noteCalls, noteElems, noteDoc>>

\* dashboard.js:744-748, the inner callback
NoteRemove(t) ==
    /\ t.kind = "remove"
    /\ noteDoc' = noteDoc \ {t.el}
    /\ noteTimers' = noteTimers \ {t}
    /\ noteEl' = [e \in NoteReachable(noteDoc', noteTimers') |-> noteEl[e]]
    /\ UNCHANGED <<noteCalls, noteElems>>

NoteTimer ==
    /\ \E t \in noteTimers :
          /\ NoteTimerDue(t)
          /\ NoteAnimateIn(t) \/ NoteAnimateOut(t) \/ NoteRemove(t)
    /\ UNCHANGED <<charts, nConstructed, dashboardData, refreshBtn, spinning,
                   inflight, nStarted, overlapped, nCompleted, stats, riskPercent, feed,
                   feedFetches, counterIntervals, dashEvent>>
    /\ UNCHANGED <<pureVars, formVars>>

-----------------------------------------------------------------------------
(***************************************************************************)
(* loadDashboardData (dashboard.js:46-71)                                  *)
(***************************************************************************)

MaxRefreshes == 2

\* showLoading (dashboard.js:682-693)
dashShowLoading(show) ==
    IF show
    THEN [label |-> "Loading...", disabled |-> TRUE]
    ELSE [label |-> "Refresh", disabled |-> FALSE]

Dom ==
    [stats |-> stats, riskPercent |-> riskPercent, charts |-> charts,
     nConstructed |-> nConstructed, counterIntervals |-> counterIntervals,
     feed |-> feed, feedFetches |-> feedFetches]

SetDom(dom) ==
    /\ stats' = dom.stats
    /\ riskPercent' = dom.riskPercent
    /\ charts' = dom.charts
    /\ nConstructed' = dom.nConstructed
    /\ counterIntervals' = dom.counterIntervals
    /\ feed' = dom.feed
    /\ feedFetches' = dom.feedFetches

\* loadSampleData (dashboard.js:630-679): the document it leaves
loadSampleData(dom) == updateDashboard(dom, sampleData, sampleData).dom

\* LoadFailed without the call of loadSampleData
LoadFailed_NoFallback(dom) ==
    /\ dashShowNotification("Failed to load dashboard data", "error")
    /\ dashboardData' = dashboardData
    /\ SetDom(dom)
    /\ refreshBtn' = dashShowLoading(FALSE)

\* the catch block (lines 62-67) and the finally block (line 69), entered
\* with the document `dom`
LoadFailed(dom) ==
    /\ dashShowNotification("Failed to load dashboard data", "error")
    /\ dashboardData' = <<sampleData>>
    /\ SetDom(loadSampleData(dom))
    /\ refreshBtn' = dashShowLoading(FALSE)

\* lines 53-60 once response.json() has resolved with `data`, then finally
LoadResolved(data) ==
    IF data.isNull \/ (data.error # <<>> /\ data.error[1] # "")
    THEN LoadFailed(Dom)                    \* data.error throws, or line 54
    ELSE LET shown == updateDashboard(Dom, data, data)
         IN  IF shown.threw
             THEN LoadFailed(shown.dom)
             ELSE /\ dashboardData' = <<data>>
                  /\ SetDom(shown.dom)
                  /\ dashShowNotification("Dashboard updated successfully",
                                          "success")
                  /\ refreshBtn' = dashShowLoading(FALSE)

\* lines 47-50: up to the first await
StartLoad ==
    /\ nStarted < MaxRefreshes
    /\ nStarted' = nStarted + 1
    /\ overlapped' = (overlapped \/ inflight # {})
    /\ inflight' = inflight \cup {[id |-> nStarted + 1, pc |-> "fetching"]}
    /\ refreshBtn' = dashShowLoading(TRUE)

DashEvent(kind, id, data) == [kind |-> kind, id |-> id, data |-> data]

NoData == ErrorSnapshot

\* setInterval(loadDashboardData, 30000) fires (dashboard.js:28)
TimerRefresh ==
    /\ StartLoad
    /\ dashEvent' = DashEvent("timer", nStarted + 1, NoData)
    /\ UNCHANGED <<charts, nConstructed, dashboardData, spinning, nCompleted,
                   stats, riskPercent, feed, feedFetches, counterIntervals,
                   noteCalls, noteElems, noteDoc, noteEl, noteTimers>>
    /\ UNCHANGED <<pureVars, formVars>>

\* the time filter changes (dashboard.js:537-540)
FilterChange ==
    /\ StartLoad
    /\ dashShowNotification("Filter updated to Last 7 days", "info")
    /\ dashEvent' = DashEvent("filter", nStarted + 1, NoData)
    /\ UNCHANGED <<charts, nConstructed, dashboardData, spinning, nCompleted,
                   stats, riskPercent, feed, feedFetches, counterIntervals>>
    /\ UNCHANGED <<pureVars, formVars>>

\* the refresh control is clicked (dashboard.js:546-550); a disabled control
\* gets no click
ManualRefresh ==
    /\ ~refreshBtn.disabled
    /\ StartLoad
    /\ spinning' = TRUE
    /\ dashEvent' = DashEvent("manual", nStarted + 1, NoData)
    /\ UNCHANGED <<charts, nConstructed, dashboardData, nCompleted, stats,
                   riskPercent, feed, feedFetches, counterIntervals,
                   noteCalls, noteElems, noteDoc, noteEl, noteTimers>>
    /\ UNCHANGED <<pureVars, formVars>>

\* the 500 ms timeout of line 549
SpinTimer ==
    /\ spinning
    /\ spinning' = FALSE
    /\ UNCHANGED <<charts, nConstructed, dashboardData, refreshBtn, inflight,
                   nStarted, overlapped, nCompleted, stats, riskPercent, feed, feedFetches,
                   counterIntervals, noteCalls, noteElems, noteDoc, noteEl,
                   noteTimers, dashEvent>>
    /\ UNCHANGED <<pureVars, formVars>>

\* fetch resolves: the call goes on to await response.json()
DashFetchResolved ==
    /\ \E r \in inflight :
          /\ r.pc = "fetching"
          /\ inflight' = (inflight \ {r}) \cup {[r EXCEPT !.pc = "parsing"]}
    /\ UNCHANGED <<charts, nConstructed, dashboardData, refreshBtn, spinning,
                   nStarted, overlapped, nCompleted, stats, riskPercent, feed, feedFetches,
                   counterIntervals, noteCalls, noteElems, noteDoc, noteEl,
                   noteTimers, dashEvent>>
    /\ UNCHANGED <<pureVars, formVars>>

\* fetch rejects: the server is unreachable
DashFetchRejected ==
    /\ \E r \in inflight :
          /\ r.pc = "fetching"
          /\ inflight' = inflight \ {r}
          /\ dashEvent' = DashEvent("unreachable", r.id, NoData)
    /\ LoadFailed(Dom)
    /\ nCompleted' = nCompleted + 1
    /\ UNCHANGED <<spinning, nStarted, overlapped>>
    /\ UNCHANGED <<pureVars, formVars>>

\* response.json() rejects: the body is not JSON
DashJsonRejected ==
    /\ \E r \in inflight :
          /\ r.pc = "parsing"
          /\ inflight' = inflight \ {r}
          /\ dashEvent' = DashEvent("notJson", r.id, NoData)
    /\ LoadFailed(Dom)
    /\ nCompleted' = nCompleted + 1
    /\ UNCHANGED <<spinning, nStarted, overlapped>>
    /\ UNCHANGED <<pureVars, formVars>>

\* response.json() resolves with a body
DashJsonResolved ==
    /\ \E r \in inflight, data \in Payloads :
          /\ r.pc = "parsing"
          /\ inflight' = inflight \ {r}
          /\ dashEvent' = DashEvent("response", r.id, data)
          /\ LoadResolved(data)
    /\ nCompleted' = nCompleted + 1
    /\ UNCHANGED <<spinning, nStarted, overlapped>>
    /\ UNCHANGED <<pureVars, formVars>>

\* the feed's own fetch of /api/analytics/predictions?limit=5 ends
\* (dashboard.js:475-481) and the feed is filled (lines 485-529)
FeedFetched ==
    /\ feedFetches > 0
    /\ feedFetches' = feedFetches - 1
    /\ \E predictions \in {<<>>, ServerTimeline} :
          feed' = FeedItems(predictions)
    /\ UNCHANGED <<charts, nConstructed, dashboardData, refreshBtn, spinning,
                   inflight, nStarted, overlapped, nCompleted, stats, riskPercent,
                   counterIntervals, noteCalls, noteElems, noteDoc, noteEl,
                   noteTimers, dashEvent>>
    /\ UNCHANGED <<pureVars, formVars>>

\* one firing of an interval of animateCounter (dashboard.js:780-787)
CounterTick ==
    /\ \E i \in 1..Len(counterIntervals) :
          LET t       == counterIntervals[i]
              current == t.current + t.increment
              reached == \/ (t.increment > 0 /\ current >= t.target)
                         \/ (t.increment < 0 /\ current <= t.target)
          IN  /\ counterIntervals' =
                    IF reached
                    THEN SubSeq(counterIntervals, 1, i - 1)
                         \o SubSeq(counterIntervals, i + 1, Len(counterIntervals))
                    ELSE [counterIntervals EXCEPT ![i].current = current]
              /\ stats' = [stats EXCEPT
                             !.totalPredictions =
                                 toLocaleString(IF reached THEN t.target ELSE current)]
    /\ UNCHANGED <<charts, nConstructed, dashboardData, refreshBtn, spinning,
                   inflight, nStarted, overlapped, nCompleted, riskPercent, feed,
                   feedFetches, noteCalls, noteElems, noteDoc, noteEl,
                   noteTimers, dashEvent>>
    /\ UNCHANGED <<pureVars, formVars>>

InitialStats ==
    [totalPredictions |-> <<"0">>, accuracyRate |-> "", avgResponse |-> "",
     highRiskCount |-> <<"0">>, precisionValue |-> "", recallValue |-> "",
     f1Value |-> ""]

\* the page once the DOMContentLoaded handler (dashboard.js:10-31) has run:
\* the first loadDashboardData is awaiting its fetch
InitDash ==
    /\ charts = [n \in ChartNames |-> <<>>]
    /\ nConstructed = [n \in ChartNames |-> 0]
    /\ dashboardData = <<>>
    /\ refreshBtn = dashShowLoading(TRUE)
    /\ spinning = FALSE
    /\ inflight = {[id |-> 1, pc |-> "fetching"]}
    /\ nStarted = 1
    /\ overlapped = FALSE
    /\ nCompleted = 0
    /\ stats = InitialStats
    /\ riskPercent = [low |-> "0%", medium |-> "0%", high |-> "0%"]
    /\ feed = <<>>
    /\ feedFetches = 0
    /\ counterIntervals = <<>>
    /\ noteCalls = 0
    /\ noteElems = 0
    /\ noteDoc = {}
    /\ noteEl = [e \in {} |-> 0]
    /\ noteTimers = {}
    /\ dashEvent = DashEvent("load", 1, NoData)

-----------------------------------------------------------------------------
(***************************************************************************)
(* formatTime (dashboard.js:752-766).  Instants are in ms since the epoch. *)
(* A timestamp is missing (undefined, null or ""), a string that `new      *)
(* Date` cannot parse, or the instant a parseable string denotes.          *)
(***************************************************************************)

MsPerMinute == 60000
MsPerHour == 3600000

Timestamp(kind, ms) == [kind |-> kind, ms |-> ms]
MissingTimestamp == Timestamp("missing", 0)
InvalidTimestamp == Timestamp("invalid", 0)
Instant(ms) == Timestamp("instant", ms)

TwoDigits(n) == IF n < 10 THEN "0" \o IntToStr(n) ELSE IntToStr(n)

\* date.toLocaleDateString(): the calendar day, written as its number
toLocaleDateString(ms) == "day " \o IntToStr(ms \div (24 * MsPerHour))

\* date.toLocaleTimeString([], {hour: '2-digit', minute: '2-digit'})
toLocaleTimeString(ms) ==
    TwoDigits((ms % (24 * MsPerHour)) \div MsPerHour) \o ":"
      \o TwoDigits((ms % MsPerHour) \div MsPerMinute)

\* formatTime with "hours" for every number of hours
formatTime_AlwaysPlural(timestamp, now) ==
    IF timestamp.kind = "missing" THEN "Just now"
    ELSE IF timestamp.kind = "invalid" THEN "Invalid Date Invalid Date"
    ELSE LET diffMs    == now - timestamp.ms
             diffMins  == diffMs \div MsPerMinute
             diffHours == diffMs \div MsPerHour
         IN  IF diffMins < 1 THEN "Just now"
             ELSE IF diffMins < 60 THEN IntToStr(diffMins) \o " min ago"
             ELSE IF diffHours < 24 THEN IntToStr(diffHours) \o " hours ago"
             ELSE toLocaleDateString(timestamp.ms) \o " "
                    \o toLocaleTimeString(timestamp.ms)

\* Of an unparseable string the difference is NaN and every comparison is
\* false, so the last return is reached with an Invalid Date.
formatTime(timestamp, now) ==
    IF timestamp.kind = "missing" THEN "Just now"
    ELSE IF timestamp.kind = "invalid" THEN "Invalid Date Invalid Date"
    ELSE LET diffMs    == now - timestamp.ms
             diffMins  == diffMs \div MsPerMinute
             diffHours == diffMs \div MsPerHour
         IN  IF diffMins < 1 THEN "Just now"
             ELSE IF diffMins < 60 THEN IntToStr(diffMins) \o " min ago"
             ELSE IF diffHours < 24
                  THEN IntToStr(diffHours) \o " hour"
                         \o (IF diffHours > 1 THEN "s" ELSE "") \o " ago"
             ELSE toLocaleDateString(timestamp.ms) \o " "
                    \o toLocaleTimeString(timestamp.ms)

\* the instants `now` is drawn from, and the ages of the timestamps
Nows == { 3 * 24 * MsPerHour, 3 * 24 * MsPerHour + 30 * MsPerMinute + 1,
          4 * 24 * MsPerHour - 1 }

Ages ==
    { 0 - MsPerMinute, 0 - 1, 0, 30000, MsPerMinute - 1, MsPerMinute,
      MsPerMinute + 1, 5 * MsPerMinute, MsPerHour - 1, MsPerHour,
      MsPerHour + 1, 2 * MsPerHour - 1, 2 * MsPerHour, 3 * MsPerHour,
      24 * MsPerHour - 1, 24 * MsPerHour, 24 * MsPerHour + 1,
      48 * MsPerHour }

InitTime ==
    /\ tTimestamp = MissingTimestamp
    /\ tNow = 0
    /\ tResult = "(not run)"
    /\ tDone = FALSE

-----------------------------------------------------------------------------
(***************************************************************************)
(* The paired sliders and number inputs (script.js:82-127).  Values are in *)
(* hundredths.  The attributes the controls are declared with are those of *)
(* the page's markup; the validated ranges of the two fields stand for     *)
(* them.                                                                   *)
(***************************************************************************)

Controls == {"Glucose", "BMI"}

SliderMin(c)  == IF c = "Glucose" THEN 0 ELSE 1000
SliderMax(c)  == IF c = "Glucose" THEN 30000 ELSE 7000
SliderStep(c) == IF c = "Glucose" THEN 100 ELSE 10
DeclaredValue(c) == IF c = "Glucose" THEN 12000 ELSE 2500

\* The value sanitization of input[type=range] that `slider.value = v` runs:
\* a string that is not a number gives the default value (the midpoint), a
\* number outside the range the nearest end, and a number off the steps the
\* nearest step, the higher one of two equally near.
SanitizeRange(c, v) ==
    LET min     == SliderMin(c)
        max     == SliderMax(c)
        step    == SliderStep(c)
        n       == IF v = <<>> THEN min + (max - min) \div 2 ELSE v[1]
        clamped == IF n < min THEN min ELSE IF n > max THEN max ELSE n
        snapped == min + ((2 * (clamped - min) + step) \div (2 * step)) * step
    IN  IF snapped > max THEN snapped - step ELSE snapped

\* updateSliderDisplay (script.js:108-127) of a slider holding `value`
updateSliderDisplay(c, value) ==
    IF c = "Glucose" THEN NumberToString(value) \o " mg/dL"
    ELSE NumberToString(value)

Sync(kind, control, value) == [kind |-> kind, control |-> control, value |-> value]

\* what a user can leave in the number input: nothing, or any number
Typed(c) ==
    { <<>>, <<SliderMin(c)>>, <<SliderMin(c) + SliderStep(c)>>,
      <<SliderMin(c) + SliderStep(c) \div 2>>, <<DeclaredValue(c)>>,
      <<DeclaredValue(c) + 1>>, <<SliderMax(c) - SliderStep(c) \div 2>>,
      <<SliderMax(c)>>, <<SliderMax(c) + SliderStep(c)>> }

\* where a user can drag the slider: the steps of its range
Dragged(c) ==
    { SliderMin(c), SliderMin(c) + SliderStep(c), DeclaredValue(c),
      SliderMax(c) - SliderStep(c), SliderMax(c) }

\* initializeRangeSliders has run (script.js:103)
InitSliders ==
    /\ numberValue = [c \in Controls |-> <<DeclaredValue(c)>>]
    /\ sliderValue = [c \in Controls |-> DeclaredValue(c)]
    /\ sliderDisplay = [c \in Controls |-> updateSliderDisplay(c, DeclaredValue(c))]
    /\ lastSync = Sync("none", "Glucose", <<>>)

\* NumberInputListener that leaves the slider alone
NumberInputListener_NoSync(c, v) ==
    /\ numberValue' = [numberValue EXCEPT ![c] = v]
    /\ sliderValue' = sliderValue
    /\ sliderDisplay' =
          [sliderDisplay EXCEPT ![c] = updateSliderDisplay(c, sliderValue[c])]

\* the `input` listener of the number input (script.js:92-95), the input
\* holding v
NumberInputListener(c, v) ==
    /\ numberValue' = [numberValue EXCEPT ![c] = v]
    /\ sliderValue' = [sliderValue EXCEPT ![c] = SanitizeRange(c, v)]
    /\ sliderDisplay' =
          [sliderDisplay EXCEPT ![c] = updateSliderDisplay(c, SanitizeRange(c, v))]

\* SliderInputListener that leaves the number input alone
SliderInputListener_NoSync(c, v) ==
    /\ sliderValue' = [sliderValue EXCEPT ![c] = v]
    /\ numberValue' = numberValue
    /\ sliderDisplay' = [sliderDisplay EXCEPT ![c] = updateSliderDisplay(c, v)]

\* the `input` listener of the slider (script.js:98-101), the slider at v
SliderInputListener(c, v) ==
    /\ sliderValue' = [sliderValue EXCEPT ![c] = v]
    /\ numberValue' = [numberValue EXCEPT ![c] = <<v>>]
    /\ sliderDisplay' = [sliderDisplay EXCEPT ![c] = updateSliderDisplay(c, v)]

\* an input event of a number input: the user has typed v, or the event is
\* dispatched again on the value the input holds
NumberInput ==
    /\ \E c \in Controls : \E v \in Typed(c) :
          /\ NumberInputListener(c, v)
          /\ lastSync' = Sync("number", c, v)
    /\ UNCHANGED <<valVars, timeVars, feedVars, exportVars, clickVars,
                   formVars, dashVars>>

\* an input event of a slider
SliderInput ==
    /\ \E c \in Controls : \E v \in Dragged(c) :
          /\ SliderInputListener(c, v)
          /\ lastSync' = Sync("slider", c, <<v>>)
    /\ UNCHANGED <<valVars, timeVars, feedVars, exportVars, clickVars,
                   formVars, dashVars>>

-----------------------------------------------------------------------------
(***************************************************************************)
(* The rendering of the feed on its own: the arrays updatePredictionFeed   *)
(* can be handed as a timeline                                             *)
(***************************************************************************)

MaxEvents == 6

\* the `limit` of the feed's own request
FeedLimit == 5

\* the instants of the events, in hours
EventTimes == {1, 2, 3}

RECURSIVE TimelinesOfLength(_)
TimelinesOfLength(n) ==
    IF n = 0 THEN {<<>>}
    ELSE {Append(t, [timestamp |-> h]) : t \in TimelinesOfLength(n - 1),
                                         h \in EventTimes}

Timelines == UNION {TimelinesOfLength(n) : n \in 0..MaxEvents}

InitFeed ==
    /\ fTimeline = <<>>
    /\ fFeed = <<>>
    /\ fDone = FALSE

-----------------------------------------------------------------------------
(***************************************************************************)
(* exportData (dashboard.js:563-607)                                       *)
(***************************************************************************)

MaxExports == 2

\* the values of `format`: the data-format attribute of a button, which is
\* null (<<>>) on a button without the attribute
Formats == {<<>>, <<"json">>, <<"csv">>, <<"pdf">>, <<"excel">>, <<"xml">>}

\* String.prototype.toUpperCase
toUpperCase(str) ==
    CASE str = "json" -> "JSON" [] str = "csv" -> "CSV" [] str = "pdf" -> "PDF"
      [] str = "excel" -> "EXCEL" [] str = "xml" -> "XML"
      [] str = "low" -> "LOW" [] str = "medium" -> "MEDIUM"
      [] str = "high" -> "HIGH" [] OTHER -> str

\* convertToCSV (dashboard.js:609-627): the sections it writes rows for
convertToCSV(data) ==
    [overview |-> data.overview[1], risk_distribution |-> data.risk_distribution[1]]

File(filename, mimeType, content) ==
    [filename |-> filename, mimeType |-> mimeType, content |-> content]

\* What the switch leaves in filename, mimeType and content (lines 571-593).
\* No case matches another format: the three stay undefined, which the
\* anchor and the Blob turn into the text "undefined" and the type "".
ExportedFile(format, data) ==
    CASE format = <<"json">> ->
            File("diabetes-analytics-<date>.json", "application/json",
                 [json |-> data])
      [] format = <<"csv">> ->
            File("diabetes-analytics-<date>.csv", "text/csv",
                 [csv |-> convertToCSV(data)])
      [] OTHER -> File("undefined", "", [text |-> "undefined"])


\* exportData.  After the download, format.toUpperCase() throws a TypeError
\* when format is null, and the call ends without a notification.
exportData(format) ==
    IF dashboardData = <<>>
    THEN /\ dashShowNotification("No data available to export", "error")
         /\ UNCHANGED downloads
    ELSE IF format \in {<<"pdf">>, <<"excel">>}
    THEN /\ dashShowNotification(toUpperCase(format[1])
                                   \o " export requires server implementation",
                                 "info")
         /\ UNCHANGED downloads
    ELSE /\ downloads' = Append(downloads, ExportedFile(format, dashboardData[1]))
         /\ IF format = <<>>
            THEN UNCHANGED <<noteCalls, noteElems, noteDoc, noteEl, noteTimers>>
            ELSE dashShowNotification(toUpperCase(format[1])
                                        \o " exported successfully!", "success")

InitExport ==
    /\ downloads = <<>>
    /\ nExports = 0
    /\ exportFormat = <<>>

\* a click on an .export-btn (dashboard.js:553-559)
ExportClick ==
    /\ nExports < MaxExports
    /\ nExports' = nExports + 1
    /\ \E format \in Formats :
          /\ exportFormat' = format
          /\ exportData(format)
    /\ UNCHANGED <<charts, nConstructed, dashboardData, refreshBtn, spinning,
                   inflight, nStarted, overlapped, nCompleted, stats,
                   riskPercent, feed, feedFetches, counterIntervals, dashEvent>>
    /\ UNCHANGED <<valVars, timeVars, sliderVars, feedVars, clickVars, formVars>>

-----------------------------------------------------------------------------
(***************************************************************************)
(* setupResultActions and downloadResultReport (script.js:284-357)         *)
(***************************************************************************)

MaxClicks == 1

\* `${v}` in a template literal
TemplateText(v) == IF v = <<>> THEN "undefined" ELSE v[1]

\* the notification state as one value, and showNotification as a function
\* of it, for handlers that call it more than once
Toasts ==
    [seq |-> toastSeq, doc |-> toastDoc, el |-> toastEl, timers |-> toastTimers]

Notified(t, message, type) ==
    LET notification == t.seq + 1
        existing     == IF t.doc = {} THEN {} ELSE {Min(t.doc)}
    IN  [seq    |-> notification,
         doc    |-> (t.doc \ existing) \cup {notification},
         el     |-> [e \in DOMAIN t.el \cup {notification} |->
                       IF e = notification
                       THEN [message |-> message, type |-> type, shown |-> FALSE]
                       ELSE t.el[e]],
         timers |-> t.timers \cup { [el |-> notification, kind |-> "in"],
                                    [el |-> notification, kind |-> "out"] }]

RECURSIVE NotifiedTimes(_, _, _, _)
NotifiedTimes(t, n, message, type) ==
    IF n = 0 THEN t
    ELSE Notified(NotifiedTimes(t, n - 1, message, type), message, type)

SetToasts(t) ==
    /\ toastSeq' = t.seq
    /\ toastDoc' = t.doc
    /\ toastEl' = t.el
    /\ toastTimers' = t.timers

\* the text of line 289
ShareText(result) ==
    [label       |-> TemplateText(result.prediction_label),
     probability |-> toFixed1(result.diabetic[1]),
     advice      |-> IF result.health_advice[1] = <<>> THEN "undefined"
                     ELSE Head(result.health_advice[1])]

\* the file of downloadResultReport (script.js:316-353); the dates come from
\* the clock
Report(result) ==
    [kind        |-> "report",
     filename    |-> "diabetes-assessment-<date>.txt",
     status      |-> TemplateText(result.prediction_label),
     riskLevel   |-> toUpperCase(result.risk_level[1]),
     confidence  |-> toFixed1(result.diabetic[1]),
     nonDiabetic |-> toFixed1(result.non_diabetic[1]),
     diabetic    |-> toFixed1(result.diabetic[1]),
     advice      |-> result.health_advice[1]]

\* the listeners whose body does not throw: result.health_advice[0] and
\* result.health_advice.map throw a TypeError on a result without advice
Listening == SelectSeq(resultActions, LAMBDA r : r.health_advice # <<>>)

InitClicks ==
    /\ canShare = FALSE
    /\ nClicks = 0
    /\ clickKind = "none"
    /\ clickOutputs = <<>>
    /\ clipboardWrites = 0

\* A click on #downloadResult runs every click listener that was added to
\* it, in the order of addition (script.js:309-311); each one that does not
\* throw downloads its report and raises a notification (line 356).
DownloadClick ==
    /\ resultArea.content = "block"
    /\ nClicks < MaxClicks
    /\ nClicks' = nClicks + 1
    /\ clickKind' = "download"
    /\ clickOutputs' = [i \in 1..Len(Listening) |-> Report(Listening[i])]
    /\ SetToasts(NotifiedTimes(Toasts, Len(Listening),
                               "Report downloaded successfully!", "success"))
    /\ UNCHANGED <<canShare, clipboardWrites>>
    /\ UNCHANGED <<formData, pc, predictBtn, resultArea, meterTimers,
                   resultActions, countVars, lastEvent>>
    /\ UNCHANGED <<valVars, timeVars, sliderVars, feedVars, exportVars, dashVars>>

\* A click on #shareResult runs every click listener that was added to it
\* (script.js:288-303).  With navigator.share every listener calls it, and
\* the browser rejects a call made while a share is in progress: the share
\* of the first listener is the one that takes place.  Without it every
\* listener writes its text to the clipboard.
ShareClick ==
    /\ resultArea.content = "block"
    /\ nClicks < MaxClicks
    /\ nClicks' = nClicks + 1
    /\ clickKind' = "share"
    /\ IF canShare
       THEN /\ clickOutputs' =
                  IF Listening = <<>> THEN <<>>
                  ELSE <<[kind |-> "share", text |-> ShareText(Listening[1])]>>
            /\ UNCHANGED clipboardWrites
       ELSE /\ clickOutputs' =
                  [i \in 1..Len(Listening) |->
                      [kind |-> "copy", text |-> ShareText(Listening[i])]]
            /\ clipboardWrites' = clipboardWrites + Len(Listening)
    /\ UNCHANGED canShare
    /\ UNCHANGED formVars
    /\ UNCHANGED <<valVars, timeVars, sliderVars, feedVars, exportVars, dashVars>>

\* a writeText promise settles: the then or the catch callback (lines 300-301)
ClipboardSettled ==
    /\ clipboardWrites > 0
    /\ clipboardWrites' = clipboardWrites - 1
    /\ \/ showNotification("Results copied to clipboard!", "success")
       \/ showNotification("Failed to copy results", "error")
    /\ UNCHANGED <<canShare, nClicks, clickKind, clickOutputs>>
    /\ UNCHANGED <<formData, pc, predictBtn, resultArea, meterTimers,
                   resultActions, countVars, lastEvent>>
    /\ UNCHANGED <<valVars, timeVars, sliderVars, feedVars, exportVars, dashVars>>

-----------------------------------------------------------------------------
(***************************************************************************)
(* The specifications                                                      *)
(***************************************************************************)

NextForm ==
    \/ EditForm
    \/ SubmitForm
    \/ FetchResolved
    \/ FetchRejected
    \/ JsonRejected
    \/ JsonResolved
    \/ ResetForm
    \/ MeterTimer
    \/ ToastTimer

InitFormPage == InitVal /\ InitTime /\ InitSliders /\ InitFeed /\ InitExport
      /\ InitClicks /\ InitForm /\ InitDash

SpecForm == InitFormPage /\ [][NextForm]_vars


NextDash ==
    \/ TimerRefresh
    \/ FilterChange
    \/ ManualRefresh
    \/ SpinTimer
    \/ DashFetchResolved
    \/ DashFetchRejected
    \/ DashJsonRejected
    \/ DashJsonResolved
    \/ FeedFetched
    \/ CounterTick
    \/ NoteTimer

InitDashPage == InitVal /\ InitTime /\ InitSliders /\ InitFeed /\ InitExport
      /\ InitClicks /\ InitForm /\ InitDash

SpecDash == InitDashPage /\ [][NextDash]_vars

InitValidate ==
    /\ vData \in InputMappings
    /\ vErrors = <<>>
    /\ vResult = NoResult
    /\ vDone = FALSE
    /\ InitTime
    /\ InitSliders
    /\ InitFeed
    /\ InitExport
    /\ InitClicks
    /\ InitForm
    /\ InitDash

\* one call of validateFormData
Validate ==
    /\ ~vDone
    /\ vErrors' = errors(vData)
    /\ vResult' = validateFormData(vData)
    /\ vDone' = TRUE
    /\ UNCHANGED <<vData, timeVars, sliderVars, feedVars, exportVars, clickVars,
                   formVars, dashVars>>

NextValidate == Validate

SpecValidate == InitValidate /\ [][NextValidate]_vars

InitFormatTime ==
    /\ tNow \in Nows
    /\ tTimestamp \in {MissingTimestamp, InvalidTimestamp}
                        \cup {Instant(tNow - a) : a \in Ages}
    /\ tResult = "(not run)"
    /\ tDone = FALSE
    /\ InitVal
    /\ InitSliders
    /\ InitFeed
    /\ InitExport
    /\ InitClicks
    /\ InitForm
    /\ InitDash

\* one call of formatTime
FormatTime ==
    /\ ~tDone
    /\ tResult' = formatTime(tTimestamp, tNow)
    /\ tDone' = TRUE
    /\ UNCHANGED <<tTimestamp, tNow, valVars, sliderVars, feedVars, exportVars, clickVars,
                   formVars,
                   dashVars>>

NextFormatTime == FormatTime

SpecFormatTime == InitFormatTime /\ [][NextFormatTime]_vars

InitRenderFeed ==
    /\ fTimeline \in Timelines
    /\ fFeed = <<>>
    /\ fDone = FALSE
    /\ InitVal
    /\ InitTime
    /\ InitSliders
    /\ InitExport
    /\ InitClicks
    /\ InitForm
    /\ InitDash

\* lines 485-529 of one call of updatePredictionFeed
RenderFeed ==
    /\ ~fDone
    /\ fFeed' = FeedItems(fTimeline)
    /\ fDone' = TRUE
    /\ UNCHANGED <<fTimeline, valVars, timeVars, sliderVars, exportVars, clickVars,
                   formVars,
                   dashVars>>

NextRenderFeed == RenderFeed

SpecRenderFeed == InitRenderFeed /\ [][NextRenderFeed]_vars

\* the dashboard page on which the user does nothing but export
NextExport ==
    \/ ExportClick
    \/ DashFetchResolved
    \/ DashFetchRejected
    \/ DashJsonRejected
    \/ DashJsonResolved
    \/ FeedFetched
    \/ CounterTick
    \/ NoteTimer

InitExportPage ==
    InitVal /\ InitTime /\ InitSliders /\ InitFeed /\ InitExport /\ InitClicks
      /\ InitForm /\ InitDash

SpecExport == InitExportPage /\ [][NextExport]_vars

NextResultActions ==
    \/ SubmitForm
    \/ FetchResolved
    \/ FetchRejected
    \/ JsonRejected
    \/ JsonResolved
    \/ ResetForm
    \/ MeterTimer
    \/ ToastTimer
    \/ DownloadClick
    \/ ShareClick
    \/ ClipboardSettled

\* the form page in a browser with or without navigator.share
InitResultActions ==
    /\ canShare \in BOOLEAN
    /\ nClicks = 0
    /\ clickKind = "none"
    /\ clickOutputs = <<>>
    /\ clipboardWrites = 0
    /\ InitVal
    /\ InitTime
    /\ InitSliders
    /\ InitFeed
    /\ InitExport
    /\ InitForm
    /\ InitDash

SpecResultActions == InitResultActions /\ [][NextResultActions]_vars

NextSliders == NumberInput \/ SliderInput

InitSliderPage == InitVal /\ InitTime /\ InitSliders /\ InitFeed /\ InitExport
      /\ InitClicks /\ InitForm /\ InitDash

SpecSliders == InitSliderPage /\ [][NextSliders]_vars

-----------------------------------------------------------------------------
(***************************************************************************)
(* The claims                                                              *)
(***************************************************************************)

\* C1: validateFormData returns valid exactly when Glucose, BMI and Age are
\* present and non-blank, every field of the mapping parses as a number, and
\* Glucose is in [0,300], BMI in [10,70], Age in [1,120], bounds included.
C1_ValidIffRulesHold == vDone => (vResult.valid <=> RulesHold(vData))

\* a valid mapping with Glucose on its upper bound and an optional field
C1_Witness ==
    /\ vDone
    /\ vResult.valid
    /\ "Insulin" \in DOMAIN vData
    /\ vData["Glucose"] = <<"3", "0", "0">>

RequiredReasons == {RequiredReason(f) : f \in FieldSet}
NumericReasons  == {NumericReason(f) : f \in FieldSet}

\* 1 for a required-field reason, 2 for a numeric reason, 3 for a range reason
ReasonRank(r) ==
    IF r \in RequiredReasons THEN 1 ELSE IF r \in NumericReasons THEN 2 ELSE 3

RangeReasonOf(f) ==
    CASE f = "Glucose" -> GlucoseRangeReason [] f = "BMI" -> BMIRangeReason
      [] f = "Age" -> AgeRangeReason

Occurs(r, list) == \E i \in 1..Len(list) : list[i] = r

\* C2: validateFormData returns valid with no reason, or invalid with a
\* non-empty reason list that holds exactly one reason for every violated
\* rule (none is skipped after the first), the required-field reasons first,
\* then the numeric ones, then the range ones, joined into the message.
C2_AllReasonsInOrder ==
    vDone =>
        IF vResult.valid
        THEN vErrors = <<>>
        ELSE /\ Len(vErrors) > 0
             /\ Len(vErrors) = Cardinality(ViolatedRequired(vData))
                               + Cardinality(ViolatedNumeric(vData))
                               + Cardinality(ViolatedRange(vData))
             /\ \A f \in ViolatedRequired(vData) : Occurs(RequiredReason(f), vErrors)
             /\ \A f \in ViolatedNumeric(vData) : Occurs(NumericReason(f), vErrors)
             /\ \A f \in ViolatedRange(vData) : Occurs(RangeReasonOf(f), vErrors)
             /\ \A i, j \in 1..Len(vErrors) :
                   i < j => ReasonRank(vErrors[i]) <= ReasonRank(vErrors[j])
             /\ vResult.message = join(vErrors, ", ")

\* an input that violates a rule of each kind
C2_Witness ==
    /\ vDone
    /\ ~vResult.valid
    /\ ViolatedRequired(vData) # {}
    /\ ViolatedNumeric(vData) # {}
    /\ ViolatedRange(vData) # {}
    /\ Len(vErrors) >= 4

\* the notification element created last
NewestToast == toastEl[toastSeq]

\* C3: the number of POSTs to the prediction endpoint equals the number of
\* submissions whose input satisfies the validation rules: a POST is issued
\* only by a submission, one at a time, and a submission whose input breaks a
\* rule raises an error notification and sends nothing.
C3_PostsEqualValidSubmissions ==
    /\ [](nPosts = nPassed)
    /\ [][ /\ nPosts' # nPosts =>
                (nSubmits' = nSubmits + 1 /\ nPosts' = nPosts + 1)
           /\ (nSubmits' = nSubmits + 1 /\ ~RulesHold(formData)) =>
                /\ nPosts' = nPosts
                /\ pc' = pc
                /\ toastSeq' = toastSeq + 1
                /\ toastEl'[toastSeq'].type = "error" ]_vars

\* a rejected submission and an accepted one whose request failed
C3_Witness ==
    /\ nSubmits = 2
    /\ nPosts = 1
    /\ pc = "idle"
    /\ lastEvent.kind = "unreachable"

\* C4: the busy indicator (control disabled, "Processing...") is on exactly
\* while the network call of a submission is pending; when the call has
\* resolved or failed, on whichever branch, the indicator is cleared.
C4_BusyOnlyWhilePending ==
    /\ predictBtn.disabled <=> pc \in {"fetching", "parsing"}
    /\ predictBtn = showLoading(pc \in {"fetching", "parsing"})

\* the indicator cleared after rendering the result threw
C4_Witness ==
    /\ lastEvent = Event("response", SuccessNoNonDiabetic)
    /\ NewestToast.message = "Unable to connect to prediction service"
    /\ ~predictBtn.disabled

\* the step in which the handling of a response body ends
ResponseStep ==
    /\ pc = "parsing"
    /\ pc' = "idle"
    /\ lastEvent'.kind = "response"
    /\ ~lastEvent'.body.isNull

\* C5 (as stated): a response of status "success" hides the placeholder,
\* shows the result panel, raises a success notification and sets the meter
\* to 0% and then to the response's diabetic percentage; any other status
\* leaves the result as it is and raises an error notification with the
\* server's message or 'Prediction failed'.
C5_SuccessRendersElseNotifies ==
    [][ ResponseStep =>
          IF lastEvent'.body.status = <<"success">>
          THEN /\ resultArea'.placeholder = "none"
               /\ resultArea'.content = "block"
               /\ toastEl'[toastSeq'].type = "success"
               /\ resultArea'.meterWidth = "0%"
               /\ meterTimers' # <<>>
               /\ meterTimers'[Len(meterTimers')] = lastEvent'.body.diabetic[1]
          ELSE /\ resultArea' = resultArea
               /\ toastEl'[toastSeq'].type = "error"
               /\ toastEl'[toastSeq'].message =
                    (IF lastEvent'.body.error # <<>>
                     THEN lastEvent'.body.error[1] ELSE "Prediction failed") ]_vars

\* the step in which a submission ends with an error notification
FailureStep ==
    /\ pc \in {"fetching", "parsing"}
    /\ pc' = "idle"
    /\ toastEl'[toastSeq'].type = "error"

\* C6 (as stated): every failure path of a submission leaves the result area
\* as it was before and only adds a notification.
C6_FailureLeavesResultArea ==
    [][ FailureStep =>
          /\ resultArea' = resultArea
          /\ meterTimers' = meterTimers
          /\ resultActions' = resultActions
          /\ toastSeq' = toastSeq + 1 ]_vars

\* C7: the registry holds one chart for each of the five names once a refresh
\* has completed, and each chart is constructed at most once, whatever the
\* refreshes, their triggers and their outcomes.
C7_OneChartPerName ==
    /\ \A n \in ChartNames :
          /\ nConstructed[n] <= 1
          /\ charts[n] # <<>> <=> nConstructed[n] = 1
    /\ nCompleted >= 1 => \A n \in ChartNames : charts[n] # <<>>

\* two refreshes completed, the later by the synthetic fallback
C7_Witness ==
    /\ nCompleted >= 2
    /\ dashEvent.kind = "unreachable"
    /\ charts["riskDistribution"][1].data = <<560, 437, 250>>
    /\ \A n \in ChartNames : nConstructed[n] = 1

\* a body updateDashboard can render: every section it reads is there
Renderable(data) ==
    /\ data.overview # <<>>
    /\ data.overview[1].total_predictions # <<>>
    /\ data.overview[1].model_accuracy # <<>>
    /\ data.risk_distribution # <<>>
    /\ data.hourly_trend # <<>>
    /\ data.performance_metrics # <<>>
    /\ data.feature_distribution # <<>>

\* the refresh that ended with event ev failed
RefreshFailed(ev) ==
    \/ ev.kind \in {"unreachable", "notJson"}
    \/ /\ ev.kind = "response"
       /\ (ev.data.isNull \/ ev.data.error # <<>> \/ ~Renderable(ev.data))

SampleRendered ==
    /\ stats.totalPredictions = <<"1", ",", "2", "4", "7">>
    /\ stats.highRiskCount = <<"2", "5", "0">>
    /\ riskPercent = [low |-> "45%", medium |-> "35%", high |-> "20%"]
    /\ charts["riskDistribution"] # <<>>
    /\ charts["riskDistribution"][1].data = <<560, 437, 250>>
    /\ charts["ageDistribution"] # <<>>
    /\ charts["ageDistribution"][1].data = <<25, 45, 30>>
    /\ Len(feed) = 5

Abs(x) == IF x < 0 THEN 0 - x ELSE x

\* text is the share of count in total as a whole percentage, to the nearest
ShareShown(text, count, total) ==
    IF total = 0
    THEN text = "0%"
    ELSE \E n \in 0..100 :
            /\ text = IntToStr(n) \o "%"
            /\ 2 * Abs(n * total - 100 * count) <= total

\* C9: each displayed risk share is the share of its count in the sum of the
\* three counts of the snapshot in memory, rounded to the nearest integer, a
\* missing count being 0; with a sum of 0 all three are "0%" and the refresh
\* still succeeds.
C9_RiskSharesRounded ==
    /\ dashboardData # <<>> =>
          LET risk   == dashboardData[1].risk_distribution[1]
              low    == IF risk.low = <<>> THEN 0 ELSE risk.low[1]
              medium == IF risk.medium = <<>> THEN 0 ELSE risk.medium[1]
              high   == IF risk.high = <<>> THEN 0 ELSE risk.high[1]
              total  == low + medium + high
          IN  /\ ShareShown(riskPercent.low, low, total)
              /\ ShareShown(riskPercent.medium, medium, total)
              /\ ShareShown(riskPercent.high, high, total)
    /\ (dashEvent.kind = "response" /\ dashEvent.data \in ServerSnapshots) =>
          dashboardData = <<dashEvent.data>>

\* a missing count, a share rounded down and a share rounded up
C9_Witness ==
    /\ dashboardData # <<>>
    /\ dashboardData[1].risk_distribution[1].low = <<>>
    /\ riskPercent = [low |-> "0%", medium |-> "33%", high |-> "67%"]

\* the timers of element e that are pending
TimersOf(timers, e) == {t \in timers : t.el = e}

\* C10: at most one notification element is in the document: raising one
\* removes the one showing before the new one is inserted, and the newest
\* one is hidden or removed only by its own timers.
C10_OneNotification ==
    /\ [](Cardinality(toastDoc) <= 1)
    /\ [][ /\ toastSeq' # toastSeq => toastDoc' = {toastSeq'}
           /\ ( /\ toastSeq' = toastSeq
                /\ toastSeq \in toastDoc
                /\ TimersOf(toastTimers', toastSeq) = TimersOf(toastTimers, toastSeq) )
              => ( /\ toastSeq \in toastDoc'
                   /\ toastEl'[toastSeq] = toastEl[toastSeq] ) ]_vars

\* a timer of a replaced notification is pending while its successor shows
C10_Witness ==
    /\ toastDoc = {toastSeq}
    /\ toastEl[toastSeq].shown
    /\ \E t \in toastTimers : t.el < toastSeq /\ t.kind = "remove"

-----------------------------------------------------------------------------
(***************************************************************************)
(* The dashboard page: notifications and timers                            *)
(***************************************************************************)

\* the timeouts of dashboard notifications that will still hide element e
PendingHide(timers, e) == {t \in timers : t.el = e /\ t.kind = "out"}

\* C11: a dashboard notification raised on the element of an earlier one
\* keeps the element visible and in the document until its own 3 seconds
\* are over: no step hides or removes the element while the timeout that
\* ends the 3 seconds of a notification raised on it is still pending.
C11_LifecycleNotInterrupted ==
    [][ \A e \in noteDoc :
           ( \/ (noteEl[e].shown /\ e \in noteDoc' /\ ~noteEl'[e].shown)
             \/ e \notin noteDoc' )
           => PendingHide(noteTimers', e) = {} ]_vars

\* C12: per target element at most one counter-animation interval and at
\* most one auto-dismiss timeout is pending: a repeated trigger clears what
\* the previous trigger on the same element left pending.  (All counter
\* animations run on the one element totalPredictions.)
C12_OneTimerPerElement ==
    /\ Len(counterIntervals) <= 1
    /\ \A e \in NoteReachable(noteDoc, noteTimers) :
          Cardinality(PendingHide(noteTimers, e)) <= 1
    /\ \A e \in DOMAIN toastEl :
          Cardinality(PendingHide(toastTimers, e)) <= 1

-----------------------------------------------------------------------------
(***************************************************************************)
(* formatTime                                                              *)
(***************************************************************************)

\* the age of the timestamp formatTime was run on
Age == tNow - tTimestamp.ms

\* C13: formatTime gives "Just now" for a missing timestamp and for an age
\* under one minute, "m min ago" for m whole minutes (1 <= m < 60),
\* "1 hour ago" or "h hours ago" for h whole hours (1 <= h < 24), and the
\* absolute date and time for an age of 24 hours or more.
C13_FormatTimeByAge ==
    tDone =>
       /\ tTimestamp.kind = "missing" => tResult = "Just now"
       /\ tTimestamp.kind = "instant" =>
             /\ Age < 60000 => tResult = "Just now"
             /\ \A m \in 1..59 :
                   (m * 60000 <= Age /\ Age < (m + 1) * 60000)
                   => tResult = IntToStr(m) \o " min ago"
             /\ \A h \in 1..23 :
                   (h * 3600000 <= Age /\ Age < (h + 1) * 3600000)
                   => tResult = (IF h = 1 THEN "1 hour ago"
                                 ELSE IntToStr(h) \o " hours ago")
             /\ Age >= 24 * 3600000
                   => tResult = toLocaleDateString(tTimestamp.ms) \o " "
                                  \o toLocaleTimeString(tTimestamp.ms)

\* formatTime has run on a timestamp between one and two hours old
C13_Witness ==
    /\ tDone
    /\ tTimestamp.kind = "instant"
    /\ 3600000 < Age /\ Age < 2 * 3600000
    /\ tResult = "1 hour ago"

-----------------------------------------------------------------------------
(***************************************************************************)
(* The paired sliders and number inputs                                    *)
(***************************************************************************)

\* v is a number within the declared range of control c
InDeclaredRange(c, v) ==
    v # <<>> /\ SliderMin(c) <= v[1] /\ v[1] <= SliderMax(c)

\* C14: once the number input of a control is set to a value within the
\* declared range, the slider reads that value; once the slider is set, the
\* number input reads the slider's value; and the same synchronization
\* applied a second time changes nothing.
C14_SliderSync ==
    /\ [] /\ ( lastSync.kind = "number"
               /\ InDeclaredRange(lastSync.control, lastSync.value) )
             => sliderValue[lastSync.control] = lastSync.value[1]
          /\ lastSync.kind = "slider"
             => /\ sliderValue[lastSync.control] = lastSync.value[1]
                /\ numberValue[lastSync.control] = lastSync.value
    /\ [][ lastSync' = lastSync => UNCHANGED sliderVars ]_vars

-----------------------------------------------------------------------------
(***************************************************************************)
(* The prediction feed                                                     *)
(***************************************************************************)

\* the timestamps of a sequence of events
TimesOf(events) == [i \in 1..Len(events) |-> events[i].timestamp]

\* the sequence without its element at position i
Without(seq, i) == SubSeq(seq, 1, i - 1) \o SubSeq(seq, i + 1, Len(seq))

\* the instants of a sequence, the latest first
RECURSIVE NewestFirst(_)
NewestFirst(times) ==
    IF times = <<>> THEN <<>>
    ELSE LET i == CHOOSE j \in 1..Len(times) :
                     \A k \in 1..Len(times) : times[k] <= times[j]
         IN  <<times[i]>> \o NewestFirst(Without(times, i))

\* C15: the feed shows the events of the timeline newest first, no more
\* than the FeedLimit most recent of them, numbered consecutively by
\* position.
C15_FeedNewestFirst ==
    fDone =>
       /\ TimesOf(fFeed) =
             SubSeq(NewestFirst(TimesOf(fTimeline)), 1,
                    IF Len(fTimeline) < FeedLimit THEN Len(fTimeline)
                    ELSE FeedLimit)
       /\ {fFeed[i].number : i \in 1..Len(fFeed)} = 1..Len(fFeed)
       /\ \A i \in 1..(Len(fFeed) - 1) :
             Abs(fFeed[i].number - fFeed[i + 1].number) = 1

-----------------------------------------------------------------------------
(***************************************************************************)
(* The dashboard page: overlapping refreshes and the snapshot shown        *)
(***************************************************************************)

\* the data of every chart is what rendering snapshot d gives it
ChartsShow(d) ==
    \A n \in ChartNames :
       /\ charts[n] # <<>>
       /\ charts[n][1].data = updateDashboard(Dom, d, d).dom.charts[n][1].data

\* the statistics and the risk shares are those of snapshot d
StatsShow(d) ==
    /\ stats.totalPredictions = toLocaleString(d.overview[1].total_predictions[1])
    /\ stats.accuracyRate = toFixed1(d.overview[1].model_accuracy[1]) \o "%"
    /\ stats.avgResponse = NumberToString(d.overview[1].avg_response_time[1]) \o "s"
    /\ stats.highRiskCount = toLocaleString(OrZero(d.risk_distribution[1].high))
    /\ stats.precisionValue = toFixed1(d.performance_metrics[1].precision) \o "%"
    /\ stats.recallValue = toFixed1(d.performance_metrics[1].recall) \o "%"
    /\ stats.f1Value = toFixed1(d.performance_metrics[1].f1_score) \o "%"
    /\ riskPercent = updateDashboard(Dom, d, d).dom.riskPercent

\* C16: once refreshes have overlapped and all of them have completed, the
\* snapshot in memory and on display is that of the response handled last,
\* whichever request it answers.
C16_LastHandledWins ==
    ( /\ overlapped
      /\ inflight = {}
      /\ dashEvent.kind = "response"
      /\ ~RefreshFailed(dashEvent) )
    => /\ dashboardData = <<dashEvent.data>>
       /\ StatsShow(dashEvent.data)
       /\ ChartsShow(dashEvent.data)

\* the feed shows the timeline of snapshot d; of a snapshot without one it
\* shows a list that the feed's own request returned, once none is pending
FeedShows(d) ==
    IF d.predictions_timeline # <<>>
    THEN feed = FeedItems(d.predictions_timeline[1])
    ELSE feedFetches = 0 => feed \in {FeedItems(<<>>), FeedItems(ServerTimeline)}

\* C17: between two handlers the statistics, the five charts and the feed
\* show the snapshot held in memory.
C17_OneSnapshotShown ==
    dashboardData # <<>> =>
       /\ StatsShow(dashboardData[1])
       /\ ChartsShow(dashboardData[1])
       /\ FeedShows(dashboardData[1])

-----------------------------------------------------------------------------
(***************************************************************************)
(* exportData                                                              *)
(***************************************************************************)

\* the step raises a notification of the given type
Raises(type) ==
    /\ noteCalls' = noteCalls + 1
    /\ \E e \in noteDoc' : noteEl'[e].type = type

\* C18: a call of exportData triggers a download exactly when a snapshot is
\* in memory and the format is json or csv; without a snapshot it raises an
\* error notification; for pdf and excel it raises an informational
\* notification and nothing else; for any other format it produces no file
\* and no success notification.
C18_ExportOnlyJsonAndCsv ==
    [][ nExports' = nExports + 1 =>
          /\ (downloads' # downloads)
                <=> ( /\ dashboardData # <<>>
                      /\ exportFormat' \in {<<"json">>, <<"csv">>} )
          /\ dashboardData = <<>> => Raises("error")
          /\ ( /\ dashboardData # <<>>
               /\ exportFormat' \in {<<"pdf">>, <<"excel">>} )
             => Raises("info")
          /\ ( /\ dashboardData # <<>>
               /\ exportFormat' \notin {<<"json">>, <<"csv">>, <<"pdf">>, <<"excel">>} )
             => ~Raises("success") ]_vars

-----------------------------------------------------------------------------
(***************************************************************************)
(* animateCounter                                                          *)
(***************************************************************************)

\* the interval t clears itself at its k-th firing from now (the test of
\* dashboard.js:782 on current + k * increment)
ClearedAtFiring(t, k) ==
    \/ (t.increment > 0 /\ t.current + k * t.increment >= t.target)
    \/ (t.increment < 0 /\ t.current + k * t.increment <= t.target)

\* some number of firings clears the interval t
Terminates(t) ==
    LET distance == IF t.target >= t.current THEN t.target - t.current
                    ELSE t.current - t.target
    IN  \E k \in 1..(distance + 1) : ClearedAtFiring(t, k)

\* C19: every counter animation a refresh starts terminates: each live
\* interval is cleared after finitely many of its firings, with the element
\* showing the target, also when the displayed value already equals the
\* target; so live intervals do not pile up from refresh to refresh.
C19_CounterAnimationTerminates ==
    \A i \in 1..Len(counterIntervals) : Terminates(counterIntervals[i])

-----------------------------------------------------------------------------
(***************************************************************************)
(* setupResultActions                                                      *)
(***************************************************************************)

\* the result of the last render that ran to its end
LastRendered == resultActions[Len(resultActions)]

\* C20: after any number k >= 1 of successfully rendered predictions, one
\* click on the download control produces exactly one report and one click
\* on the share control produces exactly one share or copy, built from the
\* most recently rendered result and from no earlier one.
C20_OneOutputPerClick ==
    [][ (nClicks' = nClicks + 1 /\ resultActions # <<>>) =>
          clickOutputs' =
             << IF clickKind' = "download"
                THEN Report(LastRendered)
                ELSE [kind |-> IF canShare THEN "share" ELSE "copy",
                      text |-> ShareText(LastRendered)] >> ]_vars

-----------------------------------------------------------------------------
(***************************************************************************)
(* resetForm and a submission in flight                                    *)
(***************************************************************************)

\* the result area in its placeholder state
PlaceholderShown ==
    /\ resultArea.placeholder = "block"
    /\ resultArea.content = "none"

\* C21: after the reset action the result area shows the placeholder with
\* the result panel hidden, and stays so until a submission made after the
\* reset: the response of a submission that was in flight when reset ran
\* does not bring the result panel back.
C21_ResetHoldsPlaceholder ==
    [][ /\ (nResets' = nResets + 1 => PlaceholderShown')
        /\ (PlaceholderShown /\ resetInFlight => PlaceholderShown') ]_vars

-----------------------------------------------------------------------------
(***************************************************************************)
(* showLoading and overlapping refreshes                                   *)
(***************************************************************************)

\* C22: the refresh control shows the loading state (disabled, "Loading...")
\* whenever at least one loadDashboardData call is in flight, and is idle
\* only when none is, also when timer, filter and manual refreshes overlap.
C22_LoadingWhileInFlight ==
    inflight # {} => refreshBtn = dashShowLoading(TRUE)

-----------------------------------------------------------------------------
(***************************************************************************)
(* The connectivity notification                                           *)
(***************************************************************************)

\* the step raises the notification of the catch block (script.js:169)
RaisesUnableToConnect ==
    /\ toastSeq' = toastSeq + 1
    /\ toastEl'[toastSeq'].message = "Unable to connect to prediction service"

\* every element of the result panel shows `result`
ShowsWholeResult(area, result) ==
    /\ area.placeholder = "none"
    /\ area.content = "block"
    /\ area.predictionLabel = Text(result.prediction_label)
    /\ result.risk_level # <<>>
    /\ area.riskBadge = Capitalized(result.risk_level[1]) \o " Risk"
    /\ result.diabetic # <<>>
    /\ area.confidenceValue = toFixed1(result.diabetic[1]) \o "%"
    /\ area.diabeticProb = toFixed1(result.diabetic[1]) \o "%"
    /\ result.non_diabetic # <<>>
    /\ area.nonDiabeticProb = toFixed1(result.non_diabetic[1]) \o "%"
    /\ result.health_advice # <<>> => area.adviceList = result.health_advice[1]

\* C23: 'Unable to connect to prediction service' is raised only when the
\* request or the parsing of its body failed; it is never raised for a
\* submission whose response was parsed with status "success", and such a
\* submission never ends with a partly updated result area.  (A body of
\* `null` is counted with the malformed bodies.)
C23_ConnectivityErrorOnlyOnFailure ==
    [][ /\ RaisesUnableToConnect
              => \/ lastEvent'.kind \in {"unreachable", "notJson"}
                 \/ lastEvent'.body.isNull
        /\ (ResponseStep /\ lastEvent'.body.status = <<"success">>)
              => /\ ~RaisesUnableToConnect
                 /\ \/ resultArea' = resultArea
                    \/ ShowsWholeResult(resultArea', lastEvent'.body) ]_vars

-----------------------------------------------------------------------------
(***************************************************************************)
(* The tooltip of the risk doughnut                                        *)
(***************************************************************************)

Segments == <<"low", "medium", "high">>

\* the label callback of the tooltip (dashboard.js:179-187) for segment i of
\* a chart: `percentage`, computed from context.raw and the `total` of the
\* call of updateRiskDistributionChart that created the chart
tooltipPercentage(chart, i) ==
    LET value == chart.data[i]
        total == chart.total
    IN  IF total > 0 THEN (200 * value + total) \div (2 * total) ELSE 0

\* C24: after any sequence of refreshes the percentage the tooltip of the
\* risk doughnut reports for a segment is the segment's share of the total
\* of the snapshot displayed, the one the percentage labels next to the chart
\* show, and not its share of the total the chart was created with.
C24_TooltipMatchesLabels ==
    charts["riskDistribution"] # <<>> =>
       \A i \in 1..3 :
          IntToStr(tooltipPercentage(charts["riskDistribution"][1], i)) \o "%"
             = riskPercent[Segments[i]]

====
